---- MODULE Spec2Model ----
(***************************************************************************)
(* A model of the Svart search core: the NNUE accumulator stack            *)
(* (engine/nnue/inference.rs), the principal-variation search with         *)
(* quiescence, aspiration windows and iterative deepening                  *)
(* (engine/search.rs) and the command loop (uci/handler.rs).               *)
(*                                                                         *)
(* Eight specifications share the variables below:                         *)
(*   SpecIndex  weight_column_index applied to every feature               *)
(*   SpecTime   time_for_move applied to clock readings                    *)
(*   SpecCastle check_castling_move / reverse_castling_move on a board     *)
(*   SpecNNUE   refresh / play_move / pop / update_feature on chess boards *)
(*   Spec       go -> iterative_deepening -> aspiration_window ->          *)
(*              pvsearch / qsearch over a small game graph                 *)
(*   SpecUci    the command loop: every command, malformed lines and two   *)
(*              searches over the same graph                               *)
(*   SpecAsp    aspiration_window with the scores of the root search as    *)
(*              inputs; SpecAspLive is its fair variant with scores        *)
(*              strictly between -INFINITY and INFINITY                    *)
(***************************************************************************)
EXTENDS Integers, Sequences, FiniteSets, TLC

VARIABLES
    \* ---- NNUEState (inference.rs:37-40) and the boards it mirrors
    accumulators,   \* [0..MAX_PLY-1 -> Accumulator]
    current_acc,    \* index of the live accumulator
    boards,         \* boards[i+1] is the board accumulators[i] was built for
    synced,         \* synced[i+1]: accumulators[i] was built by refresh/play_move only
    oplog,          \* the last two NNUE operations, each with the state before it
    nops,           \* number of NNUE operations performed so far
    \* ---- weight_column_index applied to one feature
    feat,           \* <<sq, piece, color>>
    idx,            \* its result, or <<>> before the call
    \* ---- a helper of the command loop applied to one input
    args,           \* the arguments of time_for_move, of the castling translation
                    \* or of aspiration_window
    ret,            \* what the call gave, or <<>> before the call; the locals of
                    \* the loop of aspiration_window
    \* ---- Search (search.rs:61-65) and SearchInfo (search.rs:31-42)
    tt,             \* the transposition table: [entries, age]
    stop,           \* info.stop
    timer,          \* info.timer and info.max_time are Some
    nodes,          \* info.nodes
    seldepth,       \* info.seldepth
    game_history,   \* info.game_history
    killers,        \* info.killers
    history,        \* info.history
    stack,          \* info.stack: the eval of each ply
    \* ---- uci_loop (uci/handler.rs:16-21)
    uci_board,      \* the position set by the position command
    board_set,      \* a position or a new game has been set
    uci_set,        \* the uci handshake has been done
    tt_size,        \* the Hash option, in megabytes
    nlines,         \* number of input lines read so far
    line,           \* the words of the line read last
    \* ---- the call stack of the running search
    frames,         \* pvsearch / qsearch frames, the root first
    asp,            \* locals of aspiration_window
    id,             \* locals of iterative_deepening and its position
    \* ---- environment
    timeup,         \* the clock has reached max_time (it never runs backwards)
    out,            \* the lines printed so far
    crashed,        \* "none", or the panic that ended the process
    searches        \* the go commands so far, each with the state it started from

nnueVars == <<accumulators, current_acc, boards, synced, oplog, nops>>
indexVars == <<feat, idx, args, ret>>
infoVars == <<stop, timer, nodes, seldepth, game_history, killers, history, stack>>
runVars == <<frames, asp, id, timeup, out, crashed, searches>>
loopVars == <<uci_board, board_set, uci_set, tt_size, nlines, line>>
searchVars == <<tt, stop, timer, nodes, seldepth, game_history, killers, history, stack,
                uci_board, board_set, uci_set, tt_size, nlines, line, frames, asp, id, timeup, out, crashed, searches>>
vars == <<accumulators, current_acc, boards, synced, oplog, nops, feat, idx, args, ret,
          tt, stop, timer, nodes, seldepth, game_history, killers, history, stack,
          uci_board, board_set, uci_set, tt_size, nlines, line,
          frames, asp, id, timeup, out, crashed, searches>>

(***************************************************************************)
(* Bounds of the model.                                                    *)
(***************************************************************************)
\* accumulator slots (the program's MAX_PLY, scaled down)
MAX_PLY == 8
\* hidden-layer cells modelled per perspective (the first Lanes of HIDDEN)
Lanes == 2
\* NNUE operations per behaviour of SpecNNUE
MaxOps == 3

(***************************************************************************)
(* Machine integers.                                                       *)
(***************************************************************************)
\* i16 arithmetic of a release build: two's complement wrap-around
Wrap16(x) == ((x + 32768) % 65536) - 32768

Max(a, b) == IF a >= b THEN a ELSE b
Min(a, b) == IF a <= b THEN a ELSE b

(***************************************************************************)
(* NNUE parameters and feature indexing (inference.rs).                    *)
(***************************************************************************)
FEATURES == 768
HIDDEN == 256
COLOR_STRIDE == 64 * 6
PIECE_STRIDE == 64

White == 0
Black == 1
Pawn == 0
Knight == 1
Bishop == 2
Rook == 3
Queen == 4
King == 5

Squares == 0 .. 63
Pieces == 0 .. 5
Colors == 0 .. 1

FileOf(sq) == sq % 8
RankOf(sq) == sq \div 8
SquareAt(file, rank) == rank * 8 + file

\* cozy_chess Square::flip_rank: the square index xor 56
FlipRank(sq) == SquareAt(FileOf(sq), 7 - RankOf(sq))

\* 1 ^ c for c in {0, 1}
Xor1(c) == IF c = 0 THEN 1 ELSE 0

\* mutant: the black perspective without the rank flip
weight_column_index_noflip(sq, piece, color) ==
    <<(color * COLOR_STRIDE + piece * PIECE_STRIDE + sq) * HIDDEN,
      (Xor1(color) * COLOR_STRIDE + piece * PIECE_STRIDE + sq) * HIDDEN>>

weight_column_index(sq, piece, color) ==
    LET c == color
        white_idx == c * COLOR_STRIDE + piece * PIECE_STRIDE + sq
        black_idx == Xor1(c) * COLOR_STRIDE + piece * PIECE_STRIDE + FlipRank(sq)
    IN  <<white_idx * HIDDEN, black_idx * HIDDEN>>

\* MODEL.feature_weights[k]: the network is a fixed blob of i16 values; the
\* model uses a fixed pseudo-random table over the same index range, with
\* values large enough that accumulator cells wrap around.
feature_weights(k) ==
    LET f == k \div HIDDEN
        lane == k % HIDDEN
    IN  Wrap16((((f + 1) * (f + 3)) % 8191) * 7919 + lane * 10473 + 4001)

\* MODEL.feature_bias[lane]
feature_bias(lane) == Wrap16(lane * 1009 + 77)

\* mutant: a deactivation that adds the column instead of subtracting it
update_perspective_add(activate, acc, i) ==
    [lane \in 1 .. Lanes |-> Wrap16(acc[lane] + feature_weights(i + lane - 1))]

\* mutant: saturating instead of wrapping 16-bit arithmetic
update_perspective_sat(activate, acc, i) ==
    [lane \in 1 .. Lanes |->
        IF activate
        THEN Max(0 - 32768, Min(32767, acc[lane] + feature_weights(i + lane - 1)))
        ELSE Max(0 - 32768, Min(32767, acc[lane] - feature_weights(i + lane - 1)))]

update_perspective(activate, acc, i) ==
    [lane \in 1 .. Lanes |->
        IF activate
        THEN Wrap16(acc[lane] + feature_weights(i + lane - 1))
        ELSE Wrap16(acc[lane] - feature_weights(i + lane - 1))]

efficiently_update(activate, acc, ix) ==
    [white |-> update_perspective(activate, acc.white, ix[1]),
     black |-> update_perspective(activate, acc.black, ix[2])]

AccumulatorDefault ==
    [white |-> [lane \in 1 .. Lanes |-> feature_bias(lane - 1)],
     black |-> [lane \in 1 .. Lanes |-> feature_bias(lane - 1)]]

\* alloc_zeroed: the state of every slot from_board does not initialise
AccumulatorZeroed ==
    [white |-> [lane \in 1 .. Lanes |-> 0],
     black |-> [lane \in 1 .. Lanes |-> 0]]

(***************************************************************************)
(* Chess boards (the cozy_chess oracle): sq[s] = 0 for an empty square,    *)
(* 1 + 6*color + piece otherwise; stm is the side to move; ep is the en    *)
(* passant target square or -1.                                            *)
(***************************************************************************)
Code(color, piece) == 1 + 6 * color + piece
PieceOf(code) == (code - 1) % 6
ColorOf(code) == (code - 1) \div 6

RECURSIVE ActivateOccupied(_, _, _)
ActivateOccupied(acc, board, s) ==
    IF s > 63 THEN acc
    ELSE ActivateOccupied(
            IF board.sq[s] # 0
            THEN efficiently_update(TRUE, acc,
                    weight_column_index(s, PieceOf(board.sq[s]), ColorOf(board.sq[s])))
            ELSE acc,
            board, s + 1)

\* accumulators[0] of NNUEState::from_board(board)
from_board(board) == ActivateOccupied(AccumulatorDefault, board, 0)

\* NNUEState::refresh on a state n = [accumulators, current_acc]
refresh(n, board) ==
    [accumulators |-> [n.accumulators EXCEPT ![0] = ActivateOccupied(AccumulatorDefault, board, 0)],
     current_acc |-> 0]

\* mutant: the copy is made but current_acc is not advanced
push_stay(n) ==
    [accumulators |-> [n.accumulators EXCEPT ![n.current_acc + 1] = n.accumulators[n.current_acc]],
     current_acc |-> n.current_acc]

push(n) ==
    [accumulators |-> [n.accumulators EXCEPT ![n.current_acc + 1] = n.accumulators[n.current_acc]],
     current_acc |-> n.current_acc + 1]

\* mutant: the live accumulator stays
pop_stay(n) == n

pop(n) == [n EXCEPT !.current_acc = n.current_acc - 1]

update_feature(activate, n, sq, piece, color) ==
    [n EXCEPT !.accumulators[n.current_acc] =
        efficiently_update(activate, n.accumulators[n.current_acc],
                           weight_column_index(sq, piece, color))]

(***************************************************************************)
(* The board oracle on chess boards: a move is [from, to, promotion] with  *)
(* promotion = -1 or a piece; castling is "king takes own rook".           *)
(***************************************************************************)
NoSquare == 0 - 1
NoPromotion == 0 - 1

OnBoard(file, rank) == file >= 0 /\ file <= 7 /\ rank >= 0 /\ rank <= 7

\* rank index as seen by color c (Rank::relative_to)
RelRank(r, c) == IF c = White THEN r ELSE 7 - r
\* one step forward for color c
Forward(c) == IF c = White THEN 8 ELSE 0 - 8

IsCastle(board, mv) ==
    /\ board.sq[mv.to] # 0
    /\ ColorOf(board.sq[mv.to]) = board.stm
    /\ PieceOf(board.sq[mv.from]) = King

IsEnPassant(board, mv) ==
    /\ PieceOf(board.sq[mv.from]) = Pawn
    /\ board.ep # NoSquare
    /\ mv.to = board.ep

\* Board::play_unchecked
Play(board, mv) ==
    LET stm == board.stm
        code == board.sq[mv.from]
        piece == PieceOf(code)
        rank == RankOf(mv.from)
        ks == FileOf(mv.from) < FileOf(mv.to)
        placed == IF mv.promotion # NoPromotion THEN Code(stm, mv.promotion) ELSE code
        doublePush == piece = Pawn /\ (mv.to - mv.from = 16 \/ mv.from - mv.to = 16)
        sq1 == IF IsCastle(board, mv)
               THEN [board.sq EXCEPT
                        ![mv.from] = 0,
                        ![mv.to] = 0,
                        ![SquareAt(IF ks THEN 6 ELSE 2, rank)] = Code(stm, King),
                        ![SquareAt(IF ks THEN 5 ELSE 3, rank)] = Code(stm, Rook)]
               ELSE IF IsEnPassant(board, mv)
               THEN [board.sq EXCEPT
                        ![mv.from] = 0,
                        ![mv.to] = placed,
                        ![SquareAt(FileOf(mv.to), rank)] = 0]
               ELSE [board.sq EXCEPT ![mv.from] = 0, ![mv.to] = placed]
    IN  [sq |-> sq1,
         stm |-> Xor1(stm),
         ep |-> IF doublePush THEN mv.from + Forward(stm) ELSE NoSquare]

Mv(from, to, promotion) == [from |-> from, to |-> to, promotion |-> promotion]

KingSteps == {<<1, 0>>, <<1, 1>>, <<0, 1>>, <<0 - 1, 1>>,
              <<0 - 1, 0>>, <<0 - 1, 0 - 1>>, <<0, 0 - 1>>, <<1, 0 - 1>>}
KnightSteps == {<<1, 2>>, <<2, 1>>, <<2, 0 - 1>>, <<1, 0 - 2>>,
                <<0 - 1, 0 - 2>>, <<0 - 2, 0 - 1>>, <<0 - 2, 1>>, <<0 - 1, 2>>}

\* a step lands on an empty square or on an enemy piece other than the king
Landable(board, f, r) ==
    /\ OnBoard(f, r)
    /\ \/ board.sq[SquareAt(f, r)] = 0
       \/ /\ ColorOf(board.sq[SquareAt(f, r)]) # board.stm
          /\ PieceOf(board.sq[SquareAt(f, r)]) # King

StepMoves(board, s, steps) ==
    {Mv(s, SquareAt(FileOf(s) + d[1], RankOf(s) + d[2]), NoPromotion) :
        d \in {e \in steps : Landable(board, FileOf(s) + e[1], RankOf(s) + e[2])}}

Promotions(board, s, t) ==
    IF RelRank(RankOf(t), board.stm) = 7
    THEN {Mv(s, t, p) : p \in {Knight, Bishop, Rook, Queen}}
    ELSE {Mv(s, t, NoPromotion)}

PawnMoves(board, s) ==
    LET c == board.stm
        one == s + Forward(c)
        two == one + Forward(c)
        pushes == IF board.sq[one] = 0
                  THEN Promotions(board, s, one) \cup
                       (IF RelRank(RankOf(s), c) = 1 /\ board.sq[two] = 0
                        THEN {Mv(s, two, NoPromotion)} ELSE {})
                  ELSE {}
        targets == {SquareAt(FileOf(s) + df, RankOf(one)) :
                        df \in {d \in {0 - 1, 1} : OnBoard(FileOf(s) + d, RankOf(one))}}
        takes == {t \in targets :
                    \/ /\ board.sq[t] # 0
                       /\ ColorOf(board.sq[t]) # c
                       /\ PieceOf(board.sq[t]) # King
                    \/ /\ board.sq[t] = 0
                       /\ t = board.ep}
    IN  pushes \cup UNION {Promotions(board, s, t) : t \in takes}

CastleMoves(board, s) ==
    LET c == board.stm
        r == RelRank(0, c)
        home == s = SquareAt(4, r)
        rookOn(f) == board.sq[SquareAt(f, r)] = Code(c, Rook)
        empty(fs) == \A f \in fs : board.sq[SquareAt(f, r)] = 0
    IN  (IF home /\ rookOn(7) /\ empty({5, 6})
         THEN {Mv(s, SquareAt(7, r), NoPromotion)} ELSE {}) \cup
        (IF home /\ rookOn(0) /\ empty({1, 2, 3})
         THEN {Mv(s, SquareAt(0, r), NoPromotion)} ELSE {})

\* the moves the model plays: king, knight and pawn moves and castling of the
\* side to move (a subset of the generator's moves that holds every kind of move)
Moves(board) ==
    UNION {
        IF board.sq[s] = 0 \/ ColorOf(board.sq[s]) # board.stm THEN {}
        ELSE IF PieceOf(board.sq[s]) = King
             THEN StepMoves(board, s, KingSteps) \cup CastleMoves(board, s)
        ELSE IF PieceOf(board.sq[s]) = Knight THEN StepMoves(board, s, KnightSteps)
        ELSE IF PieceOf(board.sq[s]) = Pawn THEN PawnMoves(board, s)
        ELSE {} : s \in Squares}

(***************************************************************************)
(* position::play_move (the position adapter): push, one feature update    *)
(* per square that changes, then the move is played on the board.          *)
(***************************************************************************)
play_move_nnue(n0, board, mv) ==
    LET stm == board.stm
        piece == PieceOf(board.sq[mv.from])
        rank == RankOf(mv.from)
        ks == FileOf(mv.from) < FileOf(mv.to)
        n1 == push(n0)
        \* the moving piece leaves its square
        n2 == update_feature(FALSE, n1, mv.from, piece, stm)
        \* whatever stands on the target square leaves it (a captured piece,
        \* or the own rook when castling)
        n3 == IF board.sq[mv.to] # 0
              THEN update_feature(FALSE, n2, mv.to,
                                  PieceOf(board.sq[mv.to]), ColorOf(board.sq[mv.to]))
              ELSE n2
        \* the pawn captured en passant
        n4 == IF IsEnPassant(board, mv)
              THEN update_feature(FALSE, n3, SquareAt(FileOf(mv.to), rank), Pawn, Xor1(stm))
              ELSE n3
    IN  IF IsCastle(board, mv)
        THEN update_feature(TRUE,
                update_feature(TRUE, n4, SquareAt(IF ks THEN 5 ELSE 3, rank), Rook, stm),
                SquareAt(IF ks THEN 6 ELSE 2, rank), King, stm)
        ELSE update_feature(TRUE, n4, mv.to,
                IF mv.promotion # NoPromotion THEN mv.promotion ELSE piece, stm)

(***************************************************************************)
(* The positions the NNUE specification starts from.                       *)
(***************************************************************************)
Place(pcs) ==
    [s \in Squares |->
        IF \E p \in pcs : p[1] = s
        THEN LET p == CHOOSE q \in pcs : q[1] = s IN Code(p[2], p[3])
        ELSE 0]

\* K e1, R a1 h1 / k e8, r a8 h8: king steps and both castlings
CastleSquares ==
    Place({<<4, White, King>>, <<0, White, Rook>>, <<7, White, Rook>>,
           <<60, Black, King>>, <<56, Black, Rook>>, <<63, Black, Rook>>})

\* K h1, R a1, P c4 e5 g7 / k a8, r h8, p b2 d4 d5: pushes, captures,
\* en passant, promotions with and without capture
PawnSquares ==
    Place({<<7, White, King>>, <<0, White, Rook>>,
           <<26, White, Pawn>>, <<36, White, Pawn>>, <<54, White, Pawn>>,
           <<56, Black, King>>, <<63, Black, Rook>>,
           <<9, Black, Pawn>>, <<27, Black, Pawn>>, <<35, Black, Pawn>>})

\* the pawn position with white to move after ...d7d5 (en passant on d6) and
\* with black to move after c2c4 (en passant on c3)
StartBoards ==
    {[sq |-> CastleSquares, stm |-> White, ep |-> NoSquare],
     [sq |-> CastleSquares, stm |-> Black, ep |-> NoSquare],
     [sq |-> PawnSquares, stm |-> White, ep |-> 43],
     [sq |-> PawnSquares, stm |-> Black, ep |-> 18]}

\* the features update_feature is called with directly
TestFeatures == {<<16, Pawn, White>>, <<27, Knight, Black>>}

(***************************************************************************)
(* SpecIndex: weight_column_index applied to every feature.                *)
(***************************************************************************)
NNUEIdle ==
    /\ accumulators = <<>>
    /\ current_acc = 0
    /\ boards = <<>>
    /\ synced = <<>>
    /\ oplog = <<>>
    /\ nops = 0

IndexIdle ==
    /\ feat = <<>>
    /\ idx = <<>>
    /\ args = <<>>
    /\ ret = <<>>

SearchIdle ==
    /\ tt = <<>>
    /\ stop = FALSE
    /\ timer = FALSE
    /\ nodes = 0
    /\ seldepth = 0
    /\ game_history = <<>>
    /\ killers = <<>>
    /\ history = <<>>
    /\ stack = <<>>
    /\ uci_board = <<>>
    /\ board_set = FALSE
    /\ uci_set = FALSE
    /\ tt_size = 0
    /\ nlines = 0
    /\ line = <<>>
    /\ frames = <<>>
    /\ asp = <<>>
    /\ id = <<>>
    /\ timeup = FALSE
    /\ out = <<>>
    /\ crashed = "none"
    /\ searches = <<>>

InitIndex ==
    /\ feat \in Squares \X Pieces \X Colors
    /\ idx = <<>>
    /\ args = <<>>
    /\ ret = <<>>
    /\ NNUEIdle
    /\ SearchIdle

ComputeIndex ==
    /\ feat # <<>>
    /\ idx = <<>>
    /\ idx' = weight_column_index(feat[1], feat[2], feat[3])
    /\ UNCHANGED <<feat, args, ret, nnueVars, searchVars>>

NextIndex == ComputeIndex

SpecIndex == InitIndex /\ [][NextIndex]_vars

(***************************************************************************)
(* time_for_move (uci/handler.rs:299-310, uci.rs:296-307)                  *)
(***************************************************************************)
\* the u64 modulus, scaled down
WordModulus == 65536
\* constants::TIME_OVERHEAD, in milliseconds
TIME_OVERHEAD == 50
\* Option::None of an integer argument
NoArg == 0 - 1
\* the call returned ms, or did not return: attempt to subtract with overflow
Returns(ms) == [panicked |-> FALSE, ms |-> ms]
Panicked == [panicked |-> TRUE, ms |-> 0]

\* mutant: an increment is looked at before moves_to_go
time_budget_inc_first(time, increment, moves_to_go) ==
    IF increment # NoArg THEN (time \div 20) + (increment \div 2)
    ELSE IF moves_to_go # NoArg THEN time \div Max(moves_to_go, 1)
    ELSE time \div 20

\* the body of time_for_move after the overhead is taken off
time_budget(time, increment, moves_to_go) ==
    IF moves_to_go # NoArg THEN time \div Max(moves_to_go, 1)
    ELSE IF increment # NoArg THEN (time \div 20) + (increment \div 2)
    ELSE time \div 20

\* time - TIME_OVERHEAD on u64: below the overhead the subtraction panics
\* (overflow checks on) or wraps (overflow checks off)
time_for_move(time, increment, moves_to_go) ==
    IF time >= TIME_OVERHEAD
    THEN {Returns(time_budget(time - TIME_OVERHEAD, increment, moves_to_go))}
    ELSE {Panicked,
          Returns(time_budget((time - TIME_OVERHEAD) % WordModulus, increment, moves_to_go))}

Clocks == {0, 49, 50, 51, 70, 89, 90, 1050, 2000, 60000}
Increments == {NoArg, 0, 1, 3, 100, 2000}
MovesToGo == {NoArg, 0, 1, 2, 40, 255}

InitTime ==
    /\ args \in [time : Clocks, increment : Increments, moves_to_go : MovesToGo]
    /\ ret = <<>>
    /\ feat = <<>>
    /\ idx = <<>>
    /\ NNUEIdle
    /\ SearchIdle

TimeForMove ==
    /\ ret = <<>>
    /\ ret' \in time_for_move(args.time, args.increment, args.moves_to_go)
    /\ UNCHANGED <<feat, idx, args, nnueVars, searchVars>>

NextTime == TimeForMove

SpecTime == InitTime /\ [][NextTime]_vars

(***************************************************************************)
(* check_castling_move / reverse_castling_move (uci/handler.rs:268-292,    *)
(* uci.rs:265-289)                                                         *)
(***************************************************************************)
A1 == 0
C1 == 2
E1 == 4
G1 == 6
H1 == 7
A8 == 56
C8 == 58
E8 == 60
G8 == 62
H8 == 63

\* Board::piece_on: None on an empty square
NoPiece == 0 - 1
piece_on(board, sq) == IF board.sq[sq] = 0 THEN NoPiece ELSE PieceOf(board.sq[sq])

\* the match of check_castling_move
CastleTo(from, to) ==
    IF from = E1 /\ to = G1 THEN H1
    ELSE IF from = E8 /\ to = G8 THEN H8
    ELSE IF from = E1 /\ to = C1 THEN A1
    ELSE IF from = E8 /\ to = C8 THEN A8
    ELSE to

\* the match of reverse_castling_move
UncastleTo(from, to) ==
    IF from = E1 /\ to = H1 THEN G1
    ELSE IF from = E8 /\ to = H8 THEN G8
    ELSE IF from = E1 /\ to = A1 THEN C1
    ELSE IF from = E8 /\ to = A8 THEN C8
    ELSE to

\* mutant: the piece on the from-square is not looked at
check_castling_move_any(board, mv) ==
    [mv EXCEPT !.to = CastleTo(mv.from, mv.to)]

check_castling_move(board, mv) ==
    IF piece_on(board, mv.from) = King
    THEN [mv EXCEPT !.to = CastleTo(mv.from, mv.to)]
    ELSE mv

reverse_castling_move(board, mv) ==
    IF piece_on(board, mv.from) = King
    THEN [mv EXCEPT !.to = UncastleTo(mv.from, mv.to)]
    ELSE mv

\* Q e1, R a1 h1 / r e8 a8 h8: no king on either e-square
NoKingSquares ==
    Place({<<4, White, Queen>>, <<0, White, Rook>>, <<7, White, Rook>>,
           <<60, Black, Rook>>, <<56, Black, Rook>>, <<63, Black, Rook>>})

CastleBoards ==
    {[sq |-> CastleSquares, stm |-> White, ep |-> NoSquare],
     [sq |-> NoKingSquares, stm |-> White, ep |-> NoSquare],
     [sq |-> PawnSquares, stm |-> Black, ep |-> NoSquare]}

\* from-squares: the two king squares, a rook square, an empty square, h1
CastleFroms == {E1, E8, A1, 3, H1}

InitCastle ==
    /\ args \in [board : CastleBoards,
                 mv : {Mv(f, t, NoPromotion) : f \in CastleFroms, t \in Squares}]
    /\ ret = <<>>
    /\ feat = <<>>
    /\ idx = <<>>
    /\ NNUEIdle
    /\ SearchIdle

\* position ... moves <mv>: translate the token to the engine's form;
\* printing a move: translate it back
TranslateCastling ==
    /\ ret = <<>>
    /\ ret' = [checked |-> check_castling_move(args.board, args.mv),
               back |-> reverse_castling_move(args.board,
                            check_castling_move(args.board, args.mv)),
               reversed |-> reverse_castling_move(args.board, args.mv)]
    /\ UNCHANGED <<feat, idx, args, nnueVars, searchVars>>

NextCastle == TranslateCastling

SpecCastle == InitCastle /\ [][NextCastle]_vars

(***************************************************************************)
(* SpecNNUE: the accumulator stack driven by refresh, play_move, pop and   *)
(* direct update_feature calls, as the position adapter, the search and    *)
(* the unit tests of inference.rs drive it.                                *)
(***************************************************************************)
NNUENow == [accumulators |-> accumulators, current_acc |-> current_acc]

\* the log keeps the last two operations, each with the state it started from
Logged(op, arg) ==
    LET e == [op |-> op, arg |-> arg,
              accumulators |-> accumulators, current_acc |-> current_acc]
    IN  IF Len(oplog) = 2 THEN <<oplog[2], e>> ELSE Append(oplog, e)

InitNNUE ==
    /\ \E b \in StartBoards :
        /\ boards = <<b>>
        /\ accumulators = [i \in 0 .. MAX_PLY - 1 |->
                              IF i = 0 THEN from_board(b) ELSE AccumulatorZeroed]
    /\ current_acc = 0
    /\ synced = <<TRUE>>
    /\ oplog = <<>>
    /\ nops = 0
    /\ IndexIdle
    /\ SearchIdle

\* position::play_move(&mut new_b, &mut nnue, mv) on a clone of the top board
PlayMove(mv) ==
    /\ nops < MaxOps
    /\ current_acc + 1 < MAX_PLY
    /\ mv \in Moves(boards[current_acc + 1])
    /\ LET n == play_move_nnue(NNUENow, boards[current_acc + 1], mv)
       IN  /\ accumulators' = n.accumulators
           /\ current_acc' = n.current_acc
    /\ boards' = Append(boards, Play(boards[current_acc + 1], mv))
    /\ synced' = Append(synced, synced[current_acc + 1])
    /\ oplog' = Logged("play_move", mv)
    /\ nops' = nops + 1
    /\ UNCHANGED <<indexVars, searchVars>>

\* nnue.pop(); the caller goes back to the board it cloned from
Pop ==
    /\ nops < MaxOps
    /\ current_acc > 0
    /\ LET n == pop(NNUENow)
       IN  /\ accumulators' = n.accumulators
           /\ current_acc' = n.current_acc
    /\ boards' = SubSeq(boards, 1, current_acc)
    /\ synced' = SubSeq(synced, 1, current_acc)
    /\ oplog' = Logged("pop", <<>>)
    /\ nops' = nops + 1
    /\ UNCHANGED <<indexVars, searchVars>>

\* nnue.refresh(&board) for the board on top
Refresh(b) ==
    /\ nops < MaxOps
    /\ LET n == refresh(NNUENow, b)
       IN  /\ accumulators' = n.accumulators
           /\ current_acc' = n.current_acc
    /\ boards' = <<b>>
    /\ synced' = <<TRUE>>
    /\ oplog' = Logged("refresh", <<>>)
    /\ nops' = nops + 1
    /\ UNCHANGED <<indexVars, searchVars>>

\* nnue.update_feature::<ACTIVATE / DEACTIVATE>(sq, piece, color)
UpdateFeature(activate, f) ==
    /\ nops < MaxOps
    /\ LET n == update_feature(activate, NNUENow, f[1], f[2], f[3])
       IN  /\ accumulators' = n.accumulators
           /\ current_acc' = n.current_acc
    /\ synced' = [synced EXCEPT ![current_acc + 1] = FALSE]
    /\ oplog' = Logged("update_feature", <<activate, f>>)
    /\ nops' = nops + 1
    /\ UNCHANGED <<boards, indexVars, searchVars>>

NextNNUE ==
    \/ \E mv \in Moves(boards[current_acc + 1]) : PlayMove(mv)
    \/ Pop
    \/ Refresh(boards[current_acc + 1])
    \/ \E a \in BOOLEAN, f \in TestFeatures : UpdateFeature(a, f)

SpecNNUE == InitNNUE /\ [][NextNNUE]_vars

LastOp == IF oplog = <<>> THEN "none" ELSE oplog[Len(oplog)].op
LastEntry == oplog[Len(oplog)]

(***************************************************************************)
(* Claims about the NNUE accumulator (checked under SpecNNUE, SpecIndex).  *)
(***************************************************************************)
MoveKind(board, mv) ==
    IF IsCastle(board, mv) THEN "castling"
    ELSE IF IsEnPassant(board, mv) THEN "en_passant"
    ELSE IF mv.promotion # NoPromotion THEN "promotion"
    ELSE IF board.sq[mv.to] # 0 THEN "capture"
    ELSE "quiet"

\* C1: after play_move from a state whose live accumulator was built by
\* refresh and play_move alone, both perspective vectors of
\* accumulators[current_acc] equal accumulators[0] of a state freshly built
\* (from_board) from the resulting board, whatever make/pop cycles came before.
C1_IncrementalEqualsRefresh ==
    (LastOp = "play_move" /\ synced[current_acc + 1]) =>
        /\ accumulators[current_acc].white = from_board(boards[current_acc + 1]).white
        /\ accumulators[current_acc].black = from_board(boards[current_acc + 1]).black

\* a promotion with capture played after an earlier make and pop
C1_Witness ==
    /\ Len(oplog) = 2
    /\ oplog[1].op = "pop"
    /\ oplog[2].op = "play_move"
    /\ synced[current_acc + 1]
    /\ oplog[2].arg.promotion = Queen
    /\ boards[current_acc].sq[oplog[2].arg.to] # 0
    /\ accumulators[current_acc] # accumulators[current_acc - 1]

\* C2: play_move writes only the new top entry (index current_acc + 1 of the
\* state before the make) and advances current_acc by one; the pop that
\* follows it restores current_acc and leaves every entry at an index <= the
\* pre-make current_acc as it was before the make.
C2_MakeUnmakeRoundTrip ==
    /\ LastOp = "play_move" =>
        /\ current_acc = LastEntry.current_acc + 1
        /\ \A i \in 0 .. MAX_PLY - 1 :
              i # LastEntry.current_acc + 1 => accumulators[i] = LastEntry.accumulators[i]
    /\ (Len(oplog) = 2 /\ oplog[1].op = "play_move" /\ oplog[2].op = "pop") =>
        /\ current_acc = oplog[1].current_acc
        /\ \A i \in 0 .. oplog[1].current_acc :
              accumulators[i] = oplog[1].accumulators[i]

\* a castling move made at depth 1 and popped again, the entry above changed
C2_Witness ==
    /\ Len(oplog) = 2
    /\ oplog[1].op = "play_move"
    /\ oplog[2].op = "pop"
    /\ current_acc = 1
    /\ IsCastle(boards[current_acc + 1], oplog[1].arg)
    /\ accumulators[2] # oplog[1].accumulators[2]
    /\ accumulators[2] # accumulators[1]

C4_FeatureIndexing ==
    idx # <<>> =>
        LET s == feat[1]
            p == feat[2]
            c == feat[3]
            flipped == s + 56 - 16 * (s \div 8)
        IN  /\ idx[1] = (c * 384 + p * 64 + s) * 256
            /\ idx[2] = ((1 - c) * 384 + p * 64 + flipped) * 256
            /\ idx[1] % 256 = 0 /\ idx[2] % 256 = 0
            /\ idx[1] >= 0 /\ idx[1] <= 767 * 256
            /\ idx[2] >= 0 /\ idx[2] <= 767 * 256
            /\ idx[1] = weight_column_index(flipped, p, 1 - c)[2]
            /\ (feat = <<56, Pawn, White>> => idx = <<14336, 98304>>)
            /\ (feat = <<7, Pawn, White>> => idx = <<1792, 114432>>)
            /\ (feat = <<0, Pawn, Black>> => idx = <<98304, 14336>>)
            /\ (feat = <<4, King, White>> => idx = <<82944, 195584>>)

\* the index of the black king on e8 has been computed
C4_Witness ==
    /\ feat = <<60, King, Black>>
    /\ idx = <<(384 + 5 * 64 + 60) * 256, (5 * 64 + 4) * 256>>

(***************************************************************************)
(* The search (engine/search.rs).  Scores and limits of definitions.rs.    *)
(***************************************************************************)
\* slots of the transposition table
TTSize == 4
\* the interval of the periodic time check (1024 nodes in the program)
CheckInterval == 4
\* the largest depth a go command asks for
MaxDepth == 4
\* go commands per behaviour
MaxSearches == 1
\* input lines per behaviour: of the command loop, of a single search
MaxLines == 6
SearchLines == 3
\* go commands per behaviour of the command loop
MaxUciSearches == 2

NONE == 32002
INFINITY == 32001
MATE == 32000
MATE_IN == MATE - MAX_PLY
TB_WIN == 30000
TB_WIN_IN_PLY == TB_WIN - MAX_PLY
MAX_MOVES_POSITION == 218
RFP_MARGIN == 75
LMP_TABLE == <<0, 5, 8, 18>>

Clamp(x, lo, hi) == IF x < lo THEN lo ELSE IF x > hi THEN hi ELSE x
Abs(x) == IF x < 0 THEN 0 - x ELSE x
\* nodes as i32 & 7
And7(n) == n % 8
\* Rust integer division truncates toward zero
DivT(a, b) == IF a >= 0 THEN a \div b ELSE 0 - ((0 - a) \div b)

(***************************************************************************)
(* The board oracle of the search: a game graph.  A board is a node of the *)
(* graph with its halfmove clock; a node gives the side to move, whether   *)
(* the side to move is in check, the Zobrist hash, the network's output    *)
(* for the side to move (eval) and for the other side (evalopp), whether   *)
(* the side to move has non-pawn material, the node a null move leads to,  *)
(* and the legal moves in generation order.  A move has its packed 16-bit  *)
(* form (id), the node it leads to, its kind, its MVV-LVA value and        *)
(* whether it resets the halfmove clock.                                   *)
(***************************************************************************)
M(i, to, kind, mvv, zeroing) ==
    [id |-> i, to |-> to, kind |-> kind, mvv |-> mvv, zeroing |-> zeroing]
Q(i, to) == M(i, to, "quiet", 0, FALSE)
P(i, to) == M(i, to, "quiet", 0, TRUE)
X(i, to, mvv) == M(i, to, "capture", mvv, TRUE)
N(stm, check, hash, eval, evalopp, npm, null, moves) ==
    [stm |-> stm, check |-> check, hash |-> hash, eval |-> eval, evalopp |-> evalopp,
     npm |-> npm, null |-> null, moves |-> moves]

NoMove == 0

Graph ==
    << \* 1: the main root, white to move
       N(White, FALSE, 101, 30, 0 - 25, TRUE, 21,
         <<Q(11, 2), X(12, 3, 100), Q(13, 4), Q(14, 25)>>),
       \* 2, 3, 4: black to move after 11, 12, 13
       N(Black, FALSE, 102, 0 - 10, 15, TRUE, 22, <<Q(21, 5), Q(22, 6)>>),
       N(Black, FALSE, 103, 0 - 130, 140, TRUE, 23, <<X(31, 7, 100), Q(32, 8)>>),
       N(Black, FALSE, 104, 0 - 40, 45, TRUE, 24,
         <<Q(41, 9), Q(42, 10), Q(43, 11), Q(44, 12), Q(45, 13), Q(46, 14)>>),
       \* 5: white to move, on the cycle 5 -> 15 -> 16 -> 17 -> 5
       N(White, FALSE, 105, 5, 0 - 5, TRUE, 21, <<Q(51, 15), X(52, 18, 300)>>),
       \* 6: white to move
       N(White, FALSE, 106, 60, 0 - 55, TRUE, 21, <<Q(61, 19), P(62, 20)>>),
       \* 7: white to move after the recapture
       N(White, FALSE, 107, 0 - 20, 25, FALSE, 21, <<Q(71, 19)>>),
       \* 8: white to move, a piece up
       N(White, FALSE, 108, 150, 0 - 145, TRUE, 21, <<Q(81, 20), X(82, 7, 100)>>),
       \* 9: white is checkmated
       N(White, TRUE, 109, 0 - 900, 900, TRUE, 21, <<>>),
       \* 10: white is stalemated
       N(White, FALSE, 110, 0 - 300, 300, FALSE, 21, <<>>),
       \* 11: white is in check with one escape
       N(White, TRUE, 111, 0 - 50, 50, TRUE, 21, <<Q(91, 19)>>),
       \* 12, 13, 14: white to move
       N(White, FALSE, 112, 45, 0 - 40, TRUE, 21, <<Q(92, 20)>>),
       N(White, FALSE, 113, 70, 0 - 65, TRUE, 21, <<X(93, 18, 100)>>),
       N(White, FALSE, 65536, 35, 0 - 30, TRUE, 21, <<Q(94, 19)>>),
       \* 15, 16, 17: the rest of the cycle
       N(Black, FALSE, 115, 0 - 5, 5, TRUE, 22, <<Q(95, 16)>>),
       N(White, FALSE, 116, 5, 0 - 5, TRUE, 21, <<Q(96, 17)>>),
       N(Black, FALSE, 117, 0 - 5, 5, TRUE, 22, <<Q(97, 5), X(98, 8, 100)>>),
       \* 18, 19, 20: black to move
       N(Black, FALSE, 118, 0 - 200, 205, FALSE, 22, <<X(99, 7, 300)>>),
       N(Black, FALSE, 119, 10, 0 - 10, TRUE, 22, <<Q(21, 16)>>),
       N(Black, FALSE, 120, 0 - 60, 65, TRUE, 22, <<Q(22, 5)>>),
       \* 21, 22: positions reached by a null move only
       N(White, FALSE, 121, 0, 0, TRUE, 22, <<Q(11, 19)>>),
       N(Black, FALSE, 122, 0, 0, TRUE, 21, <<Q(21, 5)>>),
       \* 23, 24: white to move after a null move in 3 and 4
       N(White, FALSE, 123, 140, 0 - 130, TRUE, 22, <<Q(11, 19)>>),
       N(White, FALSE, 124, 45, 0 - 40, TRUE, 22, <<Q(11, 19)>>),
       \* 25: black is in check after 14 and has one reply
       N(Black, TRUE, 125, 50, 0 - 45, TRUE, 22, <<Q(48, 26)>>),
       \* 26: white to move, every move allows mate
       N(White, FALSE, 126, 0 - 300, 305, TRUE, 21,
         <<Q(83, 27), Q(84, 27), Q(85, 27), Q(86, 27), Q(87, 27), Q(88, 27)>>),
       \* 27: black mates
       N(Black, FALSE, 127, 300, 0 - 295, TRUE, 22, <<Q(49, 9)>>),
       \* 28: a root with two quiet moves, the second gives check
       N(White, FALSE, 129, 20, 0 - 15, TRUE, 21, <<Q(11, 2), Q(14, 29)>>),
       \* 29: black is in check with four replies, none of which gives check;
       \* the low 16 bits of the hash are 0
       N(Black, TRUE, 131072, 50, 0 - 45, TRUE, 22,
         <<Q(41, 12), Q(42, 13), Q(43, 6), Q(48, 8)>>) >>

GraphNodes == 1 .. Len(Graph)
MoveIds == UNION {{Graph[n].moves[i].id : i \in 1 .. Len(Graph[n].moves)} : n \in GraphNodes}

\* Board accessors
side_to_move(board) == Graph[board.node].stm
hash(board) == Graph[board.node].hash
in_check(board) == Graph[board.node].check
halfmove_clock(board) == board.hmc
legal_moves(board) == Graph[board.node].moves
status(board) ==
    IF legal_moves(board) = <<>>
    THEN IF in_check(board) THEN "Won" ELSE "Drawn"
    ELSE IF board.hmc >= 100 THEN "Drawn" ELSE "Ongoing"
null_move(board) == [node |-> Graph[board.node].null, hmc |-> board.hmc + 1]
non_pawn_material(board) == Graph[board.node].npm
\* Board::play_unchecked
play(board, mv) ==
    [node |-> mv.to, hmc |-> IF mv.zeroing THEN 0 ELSE board.hmc + 1]

is_quiet(mv) == mv.kind = "quiet"
is_capture(mv) == mv.kind = "capture"

(***************************************************************************)
(* NNUE inside the search: an accumulator is named by the node whose       *)
(* piece placement it encodes (what refresh builds for it); 0 is a slot    *)
(* never written.  evaluate reads the live accumulator from the side of    *)
(* stm.                                                                    *)
(***************************************************************************)
evaluate(accs, cur, stm) ==
    IF Graph[accs[cur]].stm = stm THEN Graph[accs[cur]].eval ELSE Graph[accs[cur]].evalopp

(***************************************************************************)
(* Transposition table (engine/tt.rs).                                     *)
(***************************************************************************)
ZeroEntry == [key |-> 0, mv |-> 0, score |-> 0, depth |-> 0, flag |-> "None", age |-> 0]
\* a build with debug assertions (TRUE) or without them (FALSE)
Builds == BOOLEAN

TTNew == [entries |-> [i \in 0 .. TTSize - 1 |-> ZeroEntry], age |-> 0]

Key16(h) == h % 65536
probe(t, h) == t.entries[h % TTSize]

score_to_tt(score, ply) ==
    IF score >= MATE_IN THEN score + ply
    ELSE IF score <= 0 - MATE_IN THEN score - ply
    ELSE score

score_from_tt(score, ply) ==
    IF score >= MATE_IN THEN score - ply
    ELSE IF score <= 0 - MATE_IN THEN score + ply
    ELSE score

store(t, h, mv, score, depth, flag, ply) ==
    LET old == probe(t, h)
        replace == \/ ply = 0
                   \/ old.age # t.age
                   \/ depth >= old.depth - 3
                   \/ (old.flag # "Exact" /\ flag = "Exact")
        new == [key |-> Key16(h), mv |-> mv, score |-> Wrap16(score_to_tt(score, ply)),
                depth |-> depth % 256, flag |-> flag, age |-> t.age]
    IN  IF replace THEN [t EXCEPT !.entries[h % TTSize] = new] ELSE t

tt_age(t) == [t EXCEPT !.age = (t.age + 1) % 64]

\* tt_entry.age_flag != AgeAndFlag(0)
AgeFlagSet(e) == e.age # 0 \/ e.flag # "None"

(***************************************************************************)
(* History and killers (engine/history.rs, search.rs:328-329).             *)
(***************************************************************************)
MAX_HIST == 16384
HistoryNew == [k \in Colors \X MoveIds |-> 0]
KillersNew == [p \in 0 .. MAX_PLY - 1 |-> <<NoMove, NoMove>>]
StackNew == [p \in 0 .. MAX_PLY - 1 |-> NONE]

update_table(h, bonus, board, mv, depth) ==
    LET k == <<side_to_move(board), mv>>
        d == IF bonus THEN depth * depth ELSE 0 - depth * depth
    IN  [h EXCEPT ![k] = Clamp(h[k] + d, 0 - MAX_HIST, MAX_HIST)]

age_table(h) == [k \in DOMAIN h |-> DivT(h[k], 2)]

\* mutant: the earlier quiet moves are left alone
MalusNone(h, board, quiets, depth) == h

RECURSIVE MalusAll(_, _, _, _)
MalusAll(h, board, quiets, depth) ==
    IF quiets = <<>> THEN h
    ELSE MalusAll(update_table(h, FALSE, board, Head(quiets), depth), board, Tail(quiets), depth)

(***************************************************************************)
(* PV table (engine/pv_table.rs): a line and its length.                   *)
(***************************************************************************)
PVNew == [length |-> 0, table |-> <<>>]
pv_clear(pv) == [pv EXCEPT !.length = 0]
pv_store(pv, mv, old) ==
    [length |-> old.length + 1, table |-> <<mv>> \o SubSeq(old.table, 1, old.length)]
\* pv.table[0]
pv_first(pv) == IF pv.table = <<>> THEN NoMove ELSE pv.table[1]

(***************************************************************************)
(* Move ordering (engine/movegen.rs): scored list and picker.              *)
(***************************************************************************)
PROMO_SCORE == 30000
CAPTURE_SCORE == 20000
KILLER0_SCORE == 18000
KILLER1_SCORE == 17000

score_move(board, mv, tt_move, ply) ==
    IF tt_move # NoMove /\ mv.id = tt_move THEN INFINITY
    ELSE IF mv.kind = "promo" THEN PROMO_SCORE
    ELSE IF mv.kind = "capture" THEN CAPTURE_SCORE + mv.mvv
    ELSE IF ply < MAX_PLY /\ killers[ply][1] = mv.id THEN KILLER0_SCORE
    ELSE IF ply < MAX_PLY /\ killers[ply][2] = mv.id THEN KILLER1_SCORE
    ELSE history[<<side_to_move(board), mv.id>>]

all_moves(board, tt_move, ply) ==
    [i \in 1 .. Len(legal_moves(board)) |->
        [mv |-> legal_moves(board)[i],
         score |-> score_move(board, legal_moves(board)[i], tt_move, ply)]]

RECURSIVE OnlyCaptures(_)
OnlyCaptures(list) ==
    IF list = <<>> THEN <<>>
    ELSE IF is_capture(Head(list).mv) THEN <<Head(list)>> \o OnlyCaptures(Tail(list))
    ELSE OnlyCaptures(Tail(list))

capture_moves(board, tt_move, ply) == OnlyCaptures(all_moves(board, tt_move, ply))

\* Picker::pick_move: the index of the first move with the highest score
PickIndex(list) ==
    CHOOSE i \in 1 .. Len(list) :
        /\ \A j \in 1 .. Len(list) : list[j].score <= list[i].score
        /\ \A j \in 1 .. i - 1 : list[j].score < list[i].score

RemoveAt(list, i) == SubSeq(list, 1, i - 1) \o SubSeq(list, i + 1, Len(list))

\* LMR.reduction(depth, moves_played): floor(0.77 + ln(depth) * ln(moves) / 2.36)
LmrRow(depth) ==
    IF depth <= 1 THEN <<0, 0, 0, 0, 0, 0, 0, 0>>
    ELSE IF depth = 2 THEN <<0, 0, 1, 1, 1, 1, 1, 1>>
    ELSE IF depth = 3 THEN <<0, 1, 1, 1, 1, 1, 1, 1>>
    ELSE IF depth = 4 THEN <<0, 1, 1, 1, 1, 1, 1, 1>>
    ELSE <<0, 1, 1, 1, 1, 1, 2, 2>>
lmr_reduction(depth, moves_played) == LmrRow(depth)[Min(moves_played, 8)]

(***************************************************************************)
(* The running search.  The recursion of pvsearch and qsearch is a stack   *)
(* of frames; the frame on top is the one executing.  A frame that has     *)
(* returned stays on top with pc = "ret" until its caller consumes the     *)
(* result.  A &mut PVTable parameter is copied in at the call and copied   *)
(* back by the caller's continuation.  acc0, gh0, pushes, pops, hpushes    *)
(* and hpops record the entry values and the makes of a frame; leaf is the *)
(* return path of the node the returned score was computed at.             *)
(***************************************************************************)
NoMv == M(NoMove, 0, "none", 0, FALSE)
NoGoal == 0 - 1

NewFrame(fn, PV, b, pv, alpha, beta, depth, ply, via, acc0, gh0) ==
    [fn |-> fn, pc |-> "enter", PV |-> PV, board |-> b, pv |-> pv,
     alpha |-> alpha, beta |-> beta, depth |-> depth, ply |-> ply, via |-> via,
     old_pv |-> PVNew, in_check |-> FALSE, eval |-> 0, improving |-> FALSE,
     tt_move |-> NoMove,
     old_alpha |-> 0, best_score |-> 0, best_move |-> NoMove, moves_played |-> 0,
     picker |-> <<>>, quiet_moves |-> <<>>, quiets_checked |-> 0, quiets_to_check |-> 0,
     mv |-> NoMv, new_b |-> b, result |-> 0, why |-> "", leaf |-> "", best_leaf |-> "",
     acc0 |-> acc0, gh0 |-> gh0, pushes |-> 0, pops |-> 0, hpushes |-> 0, hpops |-> 0]

Top == frames[Len(frames)]
Running == crashed = "none" /\ frames # <<>>
SetTop(f) == [frames EXCEPT ![Len(frames)] = f]
Call(f, child) == Append(SetTop(f), child)
Return(f, score, why) ==
    [f EXCEPT !.pc = "ret", !.result = score, !.why = why,
              !.leaf = IF why \in {"done", "cutoff", "lmp"} THEN f.best_leaf ELSE why]

\* the periodic check of the clock is due (search.rs:101-102, 371-372)
\* mutant: the clock is read whether or not the search has a timer
CheckDueAlways == nodes % CheckInterval = 0

CheckDue == timer /\ nodes % CheckInterval = 0
\* what timer.elapsed() >= max can answer now
Elapsed == IF timeup THEN {TRUE} ELSE BOOLEAN

\* mutant: the frames just below the root search on
StopAtEntryDeep(s, ply) == s /\ ply > 1

\* if self.info.stop && ply > 0 { return 0; }
StopAtEntry(s, ply) == s /\ ply > 0

\* mutant: the node counter is not masked
draw_score_unmasked(n) == 8 - n

\* 8 - (self.info.nodes as i32 & 7)
draw_score(n) == 8 - And7(n)

\* Search::repetition
repetition(b, h) ==
    LET n == Len(game_history)
        taken == Min(halfmove_clock(b), n)
    IN  \E i \in 1 .. n : /\ i > n - taken
                          /\ i < n
                          /\ game_history[i] = h

\* mutant: every matching entry cuts
TTCutoff_any(flag, tt_score, alpha, beta) == TRUE

\* the three-way test of the stored bound (search.rs:169-172, 406-409)
TTCutoff(flag, tt_score, alpha, beta) ==
    \/ flag = "Exact"
    \/ (flag = "Lower" /\ tt_score >= beta)
    \/ (flag = "Upper" /\ tt_score <= alpha)

(***************************************************************************)
(* uci_loop: position and go (uci/handler.rs:86-131, 294-297).             *)
(***************************************************************************)
\* what a position command can set: the board and the hashes of the game
Positions ==
    { [node |-> 1, hmc |-> 0, hist |-> <<101>>],
      [node |-> 4, hmc |-> 1, hist |-> <<101, 104>>],
      [node |-> 16, hmc |-> 2, hist |-> <<105, 115, 116>>],
      [node |-> 9, hmc |-> 3, hist |-> <<109>>],
      [node |-> 28, hmc |-> 0, hist |-> <<129>>] }

NodeGoals == {3, 12}
\* position startpos
StartPos == [node |-> 1, hmc |-> 0, hist |-> <<101>>]
SearchTypes ==
    {[kind |-> "Depth", n |-> d] : d \in 0 .. MaxDepth}
        \cup {[kind |-> "Nodes", n |-> n] : n \in NodeGoals}
        \cup {[kind |-> "Time", n |-> 0], [kind |-> "Infinite", n |-> 0]}

IdIdle == [pc |-> "idle", depth |-> 0, d |-> 0, opt |-> FALSE, optup |-> FALSE,
           goal |-> NoGoal, best_move |-> NoMove, score |-> 0, pv |-> PVNew, leaf |-> ""]
AspIdle == [init_depth |-> 0, depth |-> 0, delta |-> 0, alpha |-> 0, beta |-> 0]

\* Search::new(TT::new(..)) with the board of uci_loop
Init ==
    /\ accumulators = [i \in 0 .. MAX_PLY - 1 |-> IF i = 0 THEN 1 ELSE 0]
    /\ current_acc = 0
    /\ boards = <<>>
    /\ synced = <<>>
    /\ oplog = <<>>
    /\ nops = 0
    /\ IndexIdle
    /\ tt = TTNew
    /\ stop = FALSE
    /\ timer = FALSE
    /\ nodes = 0
    /\ seldepth = 0
    /\ game_history = <<>>
    /\ killers = KillersNew
    /\ history = HistoryNew
    /\ stack = StackNew
    /\ uci_board = [node |-> 1, hmc |-> 0]
    /\ board_set = FALSE
    /\ uci_set = FALSE
    /\ tt_size = 16
    /\ nlines = 0
    /\ line = <<>>
    /\ frames = <<>>
    /\ asp = AspIdle
    /\ id = IdIdle
    /\ timeup = FALSE
    /\ out = <<>>
    /\ crashed = "none"
    /\ searches = <<>>

NNUEFrame == <<boards, synced, oplog, nops>>

\* mutant: the search info outlives the new game
InfoKept == UNCHANGED infoVars

\* SearchInfo::new() (search.rs:45-58)
InfoNew ==
    /\ stop' = FALSE
    /\ timer' = FALSE
    /\ nodes' = 0
    /\ seldepth' = 0
    /\ game_history' = <<>>
    /\ killers' = KillersNew
    /\ history' = HistoryNew
    /\ stack' = StackNew

\* the loop is about to read a line
Reading == crashed = "none" /\ id.pc = "idle" /\ nlines < MaxLines

\* "uci": id, options, uciok (handler.rs:34-39, 54-59)
Uci ==
    /\ Reading
    /\ nlines' = nlines + 1
    /\ line' = <<"uci">>
    /\ uci_set' = TRUE
    /\ out' = Append(out, [kind |-> "uciok"])
    /\ UNCHANGED <<nnueVars, indexVars, infoVars, tt, uci_board, board_set, tt_size,
                   frames, asp, id, timeup, crashed, searches>>

\* "isready" (handler.rs:60-63)
IsReady ==
    /\ Reading
    /\ uci_set
    /\ nlines' = nlines + 1
    /\ line' = <<"isready">>
    /\ out' = Append(out, [kind |-> "readyok"])
    /\ UNCHANGED <<nnueVars, indexVars, infoVars, tt, uci_board, board_set, uci_set,
                   tt_size, frames, asp, id, timeup, crashed, searches>>

\* "ucinewgame" (handler.rs:65-71): Search::new builds the accumulator of
\* the start position
UciNewGame ==
    /\ Reading
    /\ uci_set
    /\ nlines' = nlines + 1
    /\ line' = <<"ucinewgame">>
    /\ uci_board' = [node |-> StartPos.node, hmc |-> StartPos.hmc]
    /\ tt' = TTNew
    /\ InfoNew
    /\ accumulators' = [i \in 0 .. MAX_PLY - 1 |-> IF i = 0 THEN StartPos.node ELSE 0]
    /\ current_acc' = 0
    /\ board_set' = TRUE
    /\ UNCHANGED <<NNUEFrame, indexVars, uci_set, tt_size, runVars>>

\* the bounds of the Hash option: the test of setoption, and the range the
\* options line and the older loop give
HASH_MAX == 1024000
HASH_MIN == 1
HASH_DOC_MAX == 1024

\* if s > 1024000 { continue; }
hash_refused(n) == n > HASH_MAX

\* "setoption name Hash value <n>", n a u32 (handler.rs:72-85)
SetOption(n) ==
    /\ Reading
    /\ uci_set
    /\ nlines' = nlines + 1
    /\ line' = <<"setoption", "name", "Hash", "value", ToString(n)>>
    /\ IF hash_refused(n)
       THEN UNCHANGED <<nnueVars, infoVars, tt, tt_size>>
       ELSE /\ tt_size' = n
            /\ tt' = TTNew
            /\ InfoNew
            /\ accumulators' = [i \in 0 .. MAX_PLY - 1 |->
                                    IF i = 0 THEN uci_board.node ELSE 0]
            /\ current_acc' = 0
            /\ UNCHANGED NNUEFrame
    /\ UNCHANGED <<indexVars, uci_board, board_set, uci_set, runVars>>

\* the index of the first word equal to w (Iterator::position), from 1
RECURSIVE WordPos(_, _, _)
WordPos(words, w, i) ==
    IF i > Len(words) THEN 0
    ELSE IF words[i] = w THEN i
    ELSE WordPos(words, w, i + 1)
Has(words, w) == WordPos(words, w, 1) # 0

\* str::parse of a move gives Ok
MoveWord(word) == word \in {"e2e4", "e1g1"}

\* words[1] == "name" && words[2] == "Hash" && words[3] == "value", then
\* words[4]: the first index past the end of the line panics
SetOptionPanics(words) ==
    \/ Len(words) < 2
    \/ /\ words[2] = "name"
       /\ \/ Len(words) < 3
          \/ /\ words[3] = "Hash"
             /\ \/ Len(words) < 4
                \/ words[4] = "value" /\ Len(words) < 5

\* words[pos + 1] of the first of depth, nodes, movetime that is present
GoPanics(words) ==
    LET arg == IF Has(words, "depth") THEN WordPos(words, "depth", 1) + 1
               ELSE IF Has(words, "nodes") THEN WordPos(words, "nodes", 1) + 1
               ELSE IF Has(words, "infinite") THEN 0
               ELSE IF Has(words, "movetime") THEN WordPos(words, "movetime", 1) + 1
               ELSE 0
    IN  arg > Len(words)

\* the first word after "moves" that is not a move: parse().unwrap()
BadMove(words) ==
    /\ Has(words, "moves")
    /\ \E i \in WordPos(words, "moves", 1) + 1 .. Len(words) : ~MoveWord(words[i])

\* lines that are not well-formed commands
MalformedLines ==
    { <<"xyzzy">>,
      <<"setoption">>,
      <<"setoption", "name", "Hash">>,
      <<"setoption", "name", "Hash", "value">>,
      <<"setoption", "name", "Hash", "value", "abc">>,
      <<"setoption", "name", "Threads", "value", "2">>,
      <<"position">>,
      <<"position", "nowhere">>,
      <<"position", "fen", "8/8">>,
      <<"position", "startpos", "moves", "zz">>,
      <<"position", "nowhere", "moves", "zz">>,
      <<"go">>,
      <<"go", "depth">>,
      <<"go", "depth", "abc">>,
      <<"go", "nodes">> }

\* one pass of the loop over a line of MalformedLines (handler.rs:32-256)
Malformed(words) ==
    /\ Reading
    /\ nlines' = nlines + 1
    /\ line' = words
    /\ IF ~uci_set
       THEN \* _ => ()
            UNCHANGED <<nnueVars, infoVars, tt, uci_board, board_set, crashed>>
       ELSE IF words[1] = "setoption"
       THEN /\ crashed' = IF SetOptionPanics(words) THEN "words: index out of bounds"
                          ELSE "none"
            /\ UNCHANGED <<nnueVars, infoVars, tt, uci_board, board_set>>
       ELSE IF words[1] = "position"
       THEN IF Len(words) < 2
            THEN /\ crashed' = "words: index out of bounds"
                 /\ UNCHANGED <<nnueVars, infoVars, tt, uci_board, board_set>>
            ELSE LET startpos == words[2] = "startpos"
                     set == board_set \/ startpos
                     bad == set /\ BadMove(words)
                 IN  /\ uci_board' = IF startpos
                                     THEN [node |-> StartPos.node, hmc |-> StartPos.hmc]
                                     ELSE uci_board
                     /\ board_set' = set
                     /\ game_history' = IF startpos THEN StartPos.hist ELSE game_history
                     /\ crashed' = IF bad THEN "unwrap on Err: move" ELSE "none"
                     \* search.nnue.refresh(&board), not reached after a panic
                     /\ accumulators' = IF bad THEN accumulators
                                        ELSE [accumulators EXCEPT ![0] = uci_board'.node]
                     /\ current_acc' = IF bad THEN current_acc ELSE 0
                     /\ UNCHANGED <<NNUEFrame, tt, stop, timer, nodes, seldepth, killers,
                                    history, stack>>
       ELSE IF words[1] = "go"
       THEN /\ crashed' = IF board_set /\ GoPanics(words) THEN "words: index out of bounds"
                          ELSE "none"
            /\ UNCHANGED <<nnueVars, infoVars, tt, uci_board, board_set>>
       ELSE UNCHANGED <<nnueVars, infoVars, tt, uci_board, board_set, crashed>>
    /\ UNCHANGED <<indexVars, uci_set, tt_size, frames, asp, id, timeup, out, searches>>

\* mutant: a search is started whether or not a position was set
go_always(set) == TRUE

\* "go" => { if board_set { ... } continue; }
go_searches(set) == set

\* well-formed lines that the loop can pass over
IgnoredLines ==
    { <<"isready">>,
      <<"ucinewgame">>,
      <<"setoption", "name", "Hash", "value", "1">>,
      <<"position", "startpos">>,
      <<"go", "depth", "1">>,
      <<"go", "infinite">> }

\* a line read before the handshake ("_ => ()"), or a go read with no
\* position set (handler.rs:32-53, 122-123, 243)
Ignored(words) ==
    /\ Reading
    /\ \/ ~uci_set
       \/ words[1] = "go" /\ ~go_searches(board_set)
    /\ nlines' = nlines + 1
    /\ line' = words
    /\ UNCHANGED <<nnueVars, indexVars, infoVars, tt, uci_board, board_set, uci_set,
                   tt_size, runVars>>

\* "position ...": the board, the game history and a refreshed accumulator
Position(p) ==
    /\ crashed = "none"
    /\ id.pc = "idle"
    /\ uci_set
    /\ nlines < MaxLines
    /\ nlines' = nlines + 1
    /\ line' = <<"position", ToString(p.node)>>
    /\ uci_board' = [node |-> p.node, hmc |-> p.hmc]
    /\ board_set' = TRUE
    /\ UNCHANGED <<uci_set, tt_size>>
    /\ game_history' = p.hist
    /\ accumulators' = [accumulators EXCEPT ![0] = p.node]
    /\ current_acc' = 0
    /\ UNCHANGED <<NNUEFrame, indexVars, tt, stop, timer, nodes, seldepth, killers,
                   history, stack, runVars>>

\* "go ...": iterative_deepening up to its loop (search.rs:459-484)
Go(st) ==
    /\ crashed = "none"
    /\ id.pc = "idle"
    /\ uci_set
    /\ go_searches(board_set)
    /\ nlines < MaxLines
    /\ nlines' = nlines + 1
    /\ line' = <<"go", st.kind, ToString(st.n)>>
    /\ searches' = Append(searches,
            [root |-> uci_board, st |-> st, tt_size |-> tt_size, tt |-> tt,
             history |-> history, killers |-> killers, game_history |-> game_history,
             nodes |-> nodes, stop |-> stop, from |-> Len(out)])
    /\ timer' = (st.kind = "Time")
    /\ id' = [pc |-> "loop",
              depth |-> IF st.kind = "Depth" THEN Min(st.n, MAX_PLY) ELSE MAX_PLY,
              d |-> 0, opt |-> (st.kind = "Time"), optup |-> FALSE,
              goal |-> IF st.kind = "Nodes" THEN st.n ELSE NoGoal,
              best_move |-> NoMove, score |-> 0, pv |-> PVNew, leaf |-> ""]
    /\ UNCHANGED <<nnueVars, indexVars, tt, stop, nodes, seldepth, game_history, killers,
                   history, stack, uci_board, board_set, uci_set, tt_size, frames, asp,
                   timeup, out, crashed>>

RootFrame(pv, alpha, beta, depth) ==
    NewFrame("pv", TRUE, uci_board, pv, alpha, beta, depth, 0, "root", current_acc, game_history)

(***************************************************************************)
(* aspiration_window (search.rs:536-585): the window of one iteration.     *)
(***************************************************************************)
\* the locals before the loop (search.rs:544-556)
asp_start(prev_eval, d) ==
    [init_depth |-> d, depth |-> d, delta |-> 25,
     alpha |-> IF d >= 5 THEN Max(0 - INFINITY, prev_eval - 25) ELSE 0 - INFINITY,
     beta |-> IF d >= 5 THEN Min(INFINITY, prev_eval + 25) ELSE INFINITY]

\* mutant: the lower bound is not held at -INFINITY
lower_bound_unclamped(score, delta) == score - delta

\* alpha = (-INFINITY).max(score - delta) (search.rs:568)
lower_bound(score, delta) == Max(0 - INFINITY, score - delta)

\* score <= alpha, or else score >= beta (search.rs:566, 572)
asp_fails(a, score) == score <= a.alpha \/ score >= a.beta

\* mutant: a failed search leaves the window as it was
asp_retry_same(a, score) == a

\* the two failing branches and "delta += delta / 2" (search.rs:565-582)
asp_retry(a, score) ==
    LET delta == a.delta + a.delta \div 2
    IN  IF score <= a.alpha
        THEN [a EXCEPT !.beta = DivT(a.alpha + a.beta, 2),
                       !.alpha = lower_bound(score, a.delta),
                       !.depth = a.init_depth,
                       !.delta = delta]
        ELSE [a EXCEPT !.beta = Min(INFINITY, score + a.delta),
                       !.depth = a.depth - (IF Abs(score) < MATE_IN THEN 1 ELSE 0),
                       !.delta = delta]

\* for d in 1..=depth: seldepth = 0 and aspiration_window up to its first pvsearch
IdIterate ==
    /\ crashed = "none"
    /\ id.pc = "loop"
    /\ IF id.d + 1 > id.depth
       THEN /\ id' = [id EXCEPT !.pc = "finish"]
            /\ UNCHANGED <<seldepth, asp, frames>>
       ELSE LET d == id.d + 1
                a == asp_start(id.score, d)
            IN  /\ id' = [id EXCEPT !.pc = "asp", !.d = d]
                /\ seldepth' = 0
                /\ asp' = a
                /\ frames' = <<RootFrame(id.pv, a.alpha, a.beta, d)>>
    /\ UNCHANGED <<nnueVars, indexVars, tt, stop, timer, nodes, game_history, killers,
                   history, stack, loopVars, timeup, out, crashed, searches>>

(***************************************************************************)
(* pvsearch (search.rs:91-361).                                            *)
(***************************************************************************)
\* search.rs:225-242: the locals of the move loop and the check extension
LoopInit(f) ==
    [f EXCEPT !.pc = "loop",
              !.old_alpha = f.alpha,
              !.best_score = 0 - INFINITY,
              !.best_leaf = "none",
              !.best_move = NoMove,
              !.moves_played = 0,
              !.picker = all_moves(f.board, f.tt_move, f.ply),
              !.quiet_moves = <<>>,
              !.quiets_checked = 0,
              !.quiets_to_check = IF f.depth \in 1 .. 3 THEN LMP_TABLE[f.depth + 1]
                                  ELSE MAX_MOVES_POSITION,
              !.depth = f.depth + (IF f.in_check THEN 1 ELSE 0)]

\* search.rs:220: eval >= beta + RFP_MARGIN * depth / rfp_divisor
rfp(f) ==
    /\ ~f.PV /\ ~f.in_check
    /\ f.depth < 9
    /\ f.eval >= f.beta + DivT(RFP_MARGIN * f.depth, IF f.improving THEN 2 ELSE 1)

\* search.rs:215-242: from reverse futility pruning to the start of the loop
AfterNmp(f) == IF rfp(f) THEN Return(f, f.eval, "rfp") ELSE LoopInit(f)

\* search.rs:344-360: the flag, the TT write, the return value
ExitFlag(f) ==
    IF f.best_score >= f.beta THEN "Lower"
    ELSE IF f.best_score # f.old_alpha THEN "Exact"
    ELSE "Upper"
\* mutant: the slot is written whatever the stop flag says
ExitStoreAlways(f, s) ==
    store(tt, hash(f.board), f.best_move, f.best_score, f.depth, ExitFlag(f), f.ply)

ExitStore(f, s) ==
    IF ~s THEN store(tt, hash(f.board), f.best_move, f.best_score, f.depth, ExitFlag(f), f.ply)
    ELSE tt

\* which way the preamble of pvsearch leaves (search.rs:107-223)
PvOutcome(f, stop1) ==
    LET b == f.board
        depth == Max(f.depth, 0)
        e == probe(tt, hash(b))
        hit == e.key = Key16(hash(b))
        tt_score == score_from_tt(e.score, f.ply)
        eval == IF hit THEN tt_score ELSE evaluate(accumulators, current_acc, side_to_move(b))
    IN  IF StopAtEntry(stop1, f.ply) THEN "stop"
        ELSE IF f.ply >= MAX_PLY THEN "maxply"
        ELSE IF status(b) = "Won" THEN "won"
        ELSE IF status(b) = "Drawn" THEN "drawn"
        ELSE IF f.ply > 0 /\ repetition(b, hash(b)) THEN "repetition"
        ELSE IF f.ply > 0 /\ Max(f.alpha, f.ply - MATE) >= Min(f.beta, MATE - (f.ply + 1))
             THEN "mdp"
        ELSE IF depth = 0 /\ ~in_check(b) THEN "qsearch"
        ELSE IF hit /\ ~f.PV /\ e.depth >= depth /\ TTCutoff(e.flag, tt_score, f.alpha, f.beta)
             THEN "tt"
        ELSE IF ~f.PV /\ ~in_check(b) /\ depth >= 3 /\ eval >= f.beta /\ non_pawn_material(b)
             THEN "nmp"
        ELSE "moves"

\* mutant: the static evaluation of the node is not kept
stack_keep(st, ply, eval) == st

\* self.info.stack[ply].eval = eval
stack_store(st, ply, eval) == [st EXCEPT ![ply] = eval]

\* debug_assert!(tt_score != NONE && tt_entry.age_flag != AgeAndFlag(0))
TTEntryAsserted(e, tt_score) == tt_score # NONE /\ AgeFlagSet(e)

\* the debug_assert of the probe is evaluated and fails (search.rs:165-166)
TTAssertFails(f, stop1) ==
    LET e == probe(tt, hash(f.board))
    IN  /\ PvOutcome(f, stop1) \in {"tt", "nmp", "moves"}
        /\ e.key = Key16(hash(f.board))
        /\ ~f.PV
        /\ e.depth >= Max(f.depth, 0)
        /\ ~TTEntryAsserted(e, score_from_tt(e.score, f.ply))

PvEnter ==
    /\ Running
    /\ Top.fn = "pv" /\ Top.pc = "enter"
    /\ \E expired \in Elapsed, debug \in Builds :
        LET f == Top
            b == f.board
            stop1 == stop \/ (CheckDue /\ expired)
            way == PvOutcome(f, stop1)
            depth == Max(f.depth, 0)
            e == probe(tt, hash(b))
            hit == e.key = Key16(hash(b))
            tt_score == score_from_tt(e.score, f.ply)
            eval == IF hit THEN tt_score
                    ELSE evaluate(accumulators, current_acc, side_to_move(b))
            \* after "pv.length = 0"
            g == [f EXCEPT !.depth = depth, !.pv = pv_clear(f.pv)]
            \* after "let mut improving ..."
            g2 == [g EXCEPT !.in_check = in_check(b), !.eval = eval,
                            !.tt_move = IF hit THEN e.mv ELSE NoMove,
                            !.improving = f.ply > 1 /\ ~in_check(b)
                                            /\ eval > stack[f.ply - 2]]
            r == 3 + depth \div 3 + Min(3, DivT(eval - f.beta, 200))
            panics == debug /\ TTAssertFails(f, stop1)
        IN  /\ stop' = stop1
            /\ timeup' = (timeup \/ (CheckDue /\ expired))
            /\ seldepth' = IF way \in {"stop", "maxply"} THEN seldepth
                           ELSE Max(seldepth, f.ply)
            /\ crashed' = IF panics THEN "debug_assert: tt_entry" ELSE crashed
            /\ stack' = IF way \in {"nmp", "moves"} /\ ~panics
                        THEN stack_store(stack, f.ply, eval)
                        ELSE stack
            /\ frames' =
                IF panics THEN frames ELSE
                CASE way = "stop" -> SetTop(Return(f, 0, way))
                  [] way = "maxply" ->
                        SetTop(Return(f, evaluate(accumulators, current_acc,
                                                  side_to_move(b)), way))
                  [] way = "won" -> SetTop(Return(g, f.ply - MATE, way))
                  [] way \in {"drawn", "repetition"} ->
                        SetTop(Return(g, draw_score(nodes), way))
                  [] way = "mdp" -> SetTop(Return(g, Max(f.alpha, f.ply - MATE), way))
                  [] way = "qsearch" ->
                        Call([g EXCEPT !.pc = "q_wait"],
                             NewFrame("q", f.PV, b, PVNew, f.alpha, f.beta, 0, f.ply,
                                      "qsearch", current_acc, game_history))
                  [] way = "tt" -> SetTop(Return(g, tt_score, way))
                  [] way = "nmp" ->
                        Call([g2 EXCEPT !.pc = "null_wait"],
                             NewFrame("pv", FALSE, null_move(b), g2.old_pv,
                                      0 - f.beta, 0 - f.beta + 1, depth - r, f.ply + 1,
                                      "null", current_acc, game_history))
                  [] OTHER -> SetTop(AfterNmp(g2))
    /\ UNCHANGED <<nnueVars, indexVars, tt, timer, nodes, game_history, killers, history,
                   loopVars, asp, id, out, searches>>

\* the null-move search has returned (search.rs:203-213), then as after it
PvAfterNull ==
    /\ Running
    /\ Len(frames) >= 2
    /\ Top.pc = "ret"
    /\ frames[Len(frames) - 1].pc = "null_wait"
    /\ LET c == Top
           f == [frames[Len(frames) - 1] EXCEPT !.old_pv = c.pv]
           score == 0 - c.result
           rest == SubSeq(frames, 1, Len(frames) - 2)
       IN  frames' = IF score >= f.beta
                     THEN Append(rest, Return(f, IF score >= TB_WIN_IN_PLY THEN f.beta
                                                 ELSE score, "nmp"))
                     ELSE Append(rest, AfterNmp(f))
    /\ UNCHANGED <<nnueVars, indexVars, infoVars, tt, loopVars, asp, id, timeup,
                   out, crashed, searches>>

\* position::play_move on the accumulator stack: push, then the features of the move
play_move_acc(n, mv) ==
    LET m == push(n) IN [m EXCEPT !.accumulators[m.current_acc] = mv.to]

\* search.rs:277-291
reduction(f, mv, moves_played) ==
    IF f.depth >= 3 /\ moves_played > (IF f.PV THEN 5 ELSE 3)
    THEN Clamp(lmr_reduction(f.depth, moves_played)
                   + (IF f.PV THEN 0 ELSE 1)
                   - (IF is_capture(mv) THEN 1 ELSE 0)
                   - (IF in_check(f.board) THEN 1 ELSE 0),
               1, f.depth - 1)
    ELSE 1

\* mutant: the zero-window search is one point wider
zw_window_wide(alpha) == [alpha |-> 0 - alpha - 2, beta |-> 0 - alpha]

\* zw_search(&new_b, &mut old_pv, -alpha - 1, -alpha, ...) (search.rs:293-294)
zw_window(alpha) == [alpha |-> 0 - alpha - 1, beta |-> 0 - alpha]

\* mutant: the score of the zero-window search is taken as final
research_never(alpha, score, beta) == FALSE

\* if alpha < score && score < beta (search.rs:296)
research(alpha, score, beta) == alpha < score /\ score < beta

\* the loop has ended without a cutoff: TT write and return (search.rs:344-360)
PvExit(f, why) ==
    /\ frames' = SetTop(Return(f, f.best_score, why))
    /\ tt' = ExitStore(f, stop)

\* one turn of "while let Some(mv) = picker.pick_move()" up to the recursive call
PvPick ==
    /\ Running
    /\ Top.fn = "pv" /\ Top.pc = "loop"
    /\ LET f == Top
           i == PickIndex(f.picker)
           mv == f.picker[i].mv
           quiet == is_quiet(mv)
           checked == f.quiets_checked + (IF quiet THEN 1 ELSE 0)
           lmp == quiet /\ ~f.PV /\ ~f.in_check /\ checked >= f.quiets_to_check
           g == [f EXCEPT !.picker = RemoveAt(f.picker, i), !.quiets_checked = checked]
           moves_played == f.moves_played + 1
           new_b == play(f.board, mv)
           n == play_move_acc(NNUENow, mv)
           h == [g EXCEPT !.quiet_moves = IF quiet THEN Append(f.quiet_moves, mv.id)
                                          ELSE f.quiet_moves,
                          !.mv = mv, !.new_b = new_b, !.moves_played = moves_played,
                          !.pushes = f.pushes + 1, !.hpushes = f.hpushes + 1,
                          !.pc = IF moves_played = 1 THEN "first_wait" ELSE "zw_wait"]
           gh == Append(game_history, hash(f.board))
       IN  IF f.picker = <<>> THEN
                /\ PvExit(f, "done")
                /\ UNCHANGED <<accumulators, current_acc, game_history, nodes, crashed>>
           ELSE IF lmp THEN
                /\ PvExit(g, "lmp")
                /\ UNCHANGED <<accumulators, current_acc, game_history, nodes, crashed>>
           ELSE IF current_acc + 1 >= MAX_PLY THEN
                /\ crashed' = "accumulators: index out of bounds"
                /\ UNCHANGED <<accumulators, current_acc, game_history, nodes, frames, tt>>
           ELSE /\ accumulators' = n.accumulators
                /\ current_acc' = n.current_acc
                /\ game_history' = gh
                /\ nodes' = nodes + 1
                /\ frames' =
                     IF moves_played = 1
                     THEN Call(h, NewFrame("pv", f.PV, new_b, f.old_pv, 0 - f.beta,
                                           0 - f.alpha, f.depth - 1, f.ply + 1, "make",
                                           n.current_acc, gh))
                     ELSE Call(h, NewFrame("pv", FALSE, new_b, f.old_pv,
                                           zw_window(f.alpha).alpha,
                                           zw_window(f.alpha).beta,
                                           f.depth - reduction(f, mv, moves_played),
                                           f.ply + 1, "make", n.current_acc, gh))
                /\ UNCHANGED <<tt, crashed>>
    /\ UNCHANGED <<NNUEFrame, indexVars, stop, timer, seldepth, killers, history, stack,
                   loopVars, asp, id, timeup, out, searches>>

\* mutant: the hash of the move stays
history_keep(gh) == gh

\* self.info.game_history.pop()
history_pop(gh) == SubSeq(gh, 1, Len(gh) - 1)

\* search.rs:308-342: unmake, then best_score / alpha / pv / killers / history
Unmake(f0, score, leaf, rest) ==
    LET f == [f0 EXCEPT !.pops = f0.pops + 1, !.hpops = f0.hpops + 1]
        better == [f EXCEPT !.best_score = score, !.best_leaf = leaf]
        raised == [better EXCEPT !.alpha = score, !.best_move = f.mv.id,
                                 !.pv = pv_store(f.pv, f.mv.id, f.old_pv)]
        cut == score > f.best_score /\ score > f.alpha /\ score >= f.beta
        quietcut == cut /\ is_quiet(f.mv)
    IN  /\ game_history' = history_pop(game_history)
        /\ accumulators' = pop(NNUENow).accumulators
        /\ current_acc' = pop(NNUENow).current_acc
        /\ killers' = IF quietcut
                      THEN [killers EXCEPT ![f.ply] = <<f.mv.id, killers[f.ply][1]>>]
                      ELSE killers
        /\ history' = IF quietcut
                      THEN MalusAll(update_table(history, TRUE, f.board, f.mv.id, f.depth),
                                    f.board,
                                    SubSeq(f.quiet_moves, 1, Len(f.quiet_moves) - 1),
                                    f.depth)
                      ELSE history
        /\ tt' = IF cut THEN ExitStore(raised, stop) ELSE tt
        /\ frames' = Append(rest,
                        IF score <= f.best_score THEN [f EXCEPT !.pc = "loop"]
                        ELSE IF score <= f.alpha THEN [better EXCEPT !.pc = "loop"]
                        ELSE IF cut THEN Return(raised, raised.best_score, "cutoff")
                        ELSE [raised EXCEPT !.pc = "loop"])

\* the zero-window search of a later move has returned (search.rs:293-305)
PvAfterZw ==
    /\ Running
    /\ Len(frames) >= 2
    /\ Top.pc = "ret"
    /\ frames[Len(frames) - 1].pc = "zw_wait"
    /\ LET c == Top
           f == [frames[Len(frames) - 1] EXCEPT !.old_pv = c.pv]
           score == 0 - c.result
           rest == SubSeq(frames, 1, Len(frames) - 2)
       IN  IF research(f.alpha, score, f.beta)
           THEN /\ frames' = Append(Append(rest, [f EXCEPT !.pc = "re_wait"]),
                                    NewFrame("pv", f.PV, f.new_b, f.old_pv, 0 - f.beta,
                                             0 - f.alpha, f.depth - 1, f.ply + 1, "make",
                                             current_acc, game_history))
                /\ UNCHANGED <<accumulators, current_acc, game_history, killers, history, tt>>
           ELSE Unmake(f, score, c.leaf, rest)
    /\ UNCHANGED <<NNUEFrame, indexVars, stop, timer, nodes, seldepth, stack, loopVars, asp, id, timeup, out, crashed, searches>>

\* the full-window search of a move has returned (search.rs:268-269, 297-304)
PvAfterFull ==
    /\ Running
    /\ Len(frames) >= 2
    /\ Top.pc = "ret"
    /\ frames[Len(frames) - 1].pc \in {"first_wait", "re_wait"}
    /\ LET c == Top
           f == [frames[Len(frames) - 1] EXCEPT !.old_pv = c.pv]
       IN  Unmake(f, 0 - c.result, c.leaf, SubSeq(frames, 1, Len(frames) - 2))
    /\ UNCHANGED <<NNUEFrame, indexVars, stop, timer, nodes, seldepth, stack, loopVars, asp, id, timeup, out, crashed, searches>>

\* return self.qsearch::<PV>(board, alpha, beta, ply) (search.rs:148-150)
PvAfterQ ==
    /\ Running
    /\ Len(frames) >= 2
    /\ Top.pc = "ret"
    /\ frames[Len(frames) - 1].pc = "q_wait"
    /\ frames' = Append(SubSeq(frames, 1, Len(frames) - 2),
                        [Return(frames[Len(frames) - 1], Top.result, "qsearch")
                            EXCEPT !.leaf = Top.leaf])
    /\ UNCHANGED <<nnueVars, indexVars, infoVars, tt, loopVars, asp, id, timeup,
                   out, crashed, searches>>

(***************************************************************************)
(* qsearch (search.rs:364-457).                                            *)
(***************************************************************************)
QExitStore(f, s) ==
    IF ~s THEN store(tt, hash(f.board), f.best_move, f.best_score, 0,
                     IF f.best_score >= f.beta THEN "Lower" ELSE "Upper", f.ply)
    ELSE tt

\* which way the preamble of qsearch leaves (search.rs:371-415)
QOutcome(f, fired) ==
    LET b == f.board
        stand_pat == evaluate(accumulators, current_acc, side_to_move(b))
        alpha == Max(f.alpha, stand_pat)
        e == probe(tt, hash(b))
        hit == e.key = Key16(hash(b))
        tt_score == score_from_tt(e.score, f.ply)
    IN  IF fired THEN "timer"
        ELSE IF StopAtEntry(stop, f.ply) THEN "stop"
        ELSE IF f.ply >= MAX_PLY THEN "maxply"
        ELSE IF stand_pat >= f.beta THEN "standpat"
        ELSE IF hit /\ ~f.PV /\ AgeFlagSet(e) /\ TTCutoff(e.flag, tt_score, alpha, f.beta)
             THEN "tt"
        ELSE "captures"

QEnter ==
    /\ Running
    /\ Top.fn = "q" /\ Top.pc = "enter"
    /\ \E expired \in Elapsed :
        LET f == Top
            b == f.board
            fired == CheckDue /\ expired
            way == QOutcome(f, fired)
            stand_pat == evaluate(accumulators, current_acc, side_to_move(b))
            e == probe(tt, hash(b))
            hit == e.key = Key16(hash(b))
            tt_move == IF hit /\ ~f.PV /\ AgeFlagSet(e) THEN e.mv ELSE NoMove
            g == [f EXCEPT !.alpha = Max(f.alpha, stand_pat), !.eval = stand_pat]
        IN  /\ stop' = (stop \/ fired)
            /\ timeup' = (timeup \/ fired)
            /\ seldepth' = IF way \in {"timer", "stop", "maxply"} THEN seldepth
                           ELSE Max(seldepth, f.ply)
            /\ frames' =
                CASE way \in {"timer", "stop"} -> SetTop(Return(f, 0, way))
                  [] way = "maxply" -> SetTop(Return(f, stand_pat, way))
                  [] way = "standpat" -> SetTop(Return(g, stand_pat, way))
                  [] way = "tt" -> SetTop(Return(g, score_from_tt(e.score, f.ply), way))
                  [] OTHER ->
                        SetTop([g EXCEPT !.pc = "loop", !.tt_move = tt_move,
                                         !.picker = capture_moves(b, tt_move, f.ply),
                                         !.best_score = stand_pat, !.best_leaf = "standpat",
                                         !.best_move = NoMove])
    /\ UNCHANGED <<nnueVars, indexVars, tt, timer, nodes, game_history, killers, history,
                   stack, loopVars, asp, id, out, crashed, searches>>

\* one turn of the capture loop up to the recursive call (search.rs:422-428)
QPick ==
    /\ Running
    /\ Top.fn = "q" /\ Top.pc = "loop"
    /\ LET f == Top
           i == PickIndex(f.picker)
           mv == f.picker[i].mv
           n == play_move_acc(NNUENow, mv)
           g == [f EXCEPT !.picker = RemoveAt(f.picker, i), !.mv = mv,
                          !.new_b = play(f.board, mv), !.moves_played = f.moves_played + 1,
                          !.pushes = f.pushes + 1, !.pc = "q_child"]
       IN  IF f.picker = <<>> THEN
                /\ frames' = SetTop(Return(f, f.best_score, "done"))
                /\ tt' = QExitStore(f, stop)
                /\ UNCHANGED <<accumulators, current_acc, nodes, crashed>>
           ELSE IF current_acc + 1 >= MAX_PLY THEN
                /\ crashed' = "accumulators: index out of bounds"
                /\ UNCHANGED <<accumulators, current_acc, nodes, frames, tt>>
           ELSE /\ accumulators' = n.accumulators
                /\ current_acc' = n.current_acc
                /\ nodes' = nodes + 1
                /\ frames' = Call(g, NewFrame("q", f.PV, play(f.board, mv), PVNew,
                                              0 - f.beta, 0 - f.alpha, 0, f.ply + 1, "make",
                                              n.current_acc, game_history))
                /\ UNCHANGED <<tt, crashed>>
    /\ UNCHANGED <<NNUEFrame, indexVars, stop, timer, seldepth, game_history, killers,
                   history, stack, loopVars, asp, id, timeup, out, searches>>

\* the recursive qsearch has returned (search.rs:428-456)
QAfter ==
    /\ Running
    /\ Len(frames) >= 2
    /\ Top.pc = "ret"
    /\ frames[Len(frames) - 1].pc = "q_child"
    /\ LET f0 == frames[Len(frames) - 1]
           f == [f0 EXCEPT !.pops = f0.pops + 1]
           score == 0 - Top.result
           rest == SubSeq(frames, 1, Len(frames) - 2)
           better == [f EXCEPT !.best_score = score, !.best_leaf = Top.leaf]
           raised == [better EXCEPT !.alpha = score, !.best_move = f.mv.id]
           cut == score > f.best_score /\ score > f.alpha /\ score >= f.beta
       IN  /\ accumulators' = pop(NNUENow).accumulators
           /\ current_acc' = pop(NNUENow).current_acc
           /\ tt' = IF cut THEN QExitStore(raised, stop) ELSE tt
           /\ frames' = Append(rest,
                           IF score <= f.best_score THEN [f EXCEPT !.pc = "loop"]
                           ELSE IF score <= f.alpha THEN [better EXCEPT !.pc = "loop"]
                           ELSE IF cut THEN Return(raised, raised.best_score, "cutoff")
                           ELSE [raised EXCEPT !.pc = "loop"])
    /\ UNCHANGED <<NNUEFrame, indexVars, infoVars, loopVars, asp, id, timeup,
                   out, crashed, searches>>

(***************************************************************************)
(* aspiration_window and iterative_deepening (search.rs:459-585).          *)
(***************************************************************************)
\* the root pvsearch has returned to aspiration_window (search.rs:559-584)
AspAfter ==
    /\ crashed = "none"
    /\ id.pc = "asp"
    /\ Len(frames) = 1
    /\ Top.pc = "ret"
    /\ LET score == Top.result
           pv == Top.pv
           again == asp_retry(asp, score)
       IN  IF stop THEN
                /\ id' = [id EXCEPT !.pc = "iter_end", !.score = 0, !.pv = pv,
                                    !.leaf = "stop"]
                /\ frames' = <<>>
                /\ asp' = asp
           ELSE IF asp_fails(asp, score) THEN
                /\ id' = [id EXCEPT !.pv = pv]
                /\ asp' = again
                /\ frames' = <<RootFrame(pv, again.alpha, again.beta, again.depth)>>
           ELSE /\ id' = [id EXCEPT !.pc = "iter_end", !.score = score, !.pv = pv,
                                    !.leaf = Top.leaf]
                /\ frames' = <<>>
                /\ asp' = asp
    /\ UNCHANGED <<nnueVars, indexVars, infoVars, tt, loopVars, timeup, out,
                   crashed, searches>>

(***************************************************************************)
(* aspiration_window on its own: the root search is an input, one score    *)
(* and one value of the stop flag per call.  ret holds the locals of the   *)
(* loop while it runs (pc = "call": pvsearch is about to be called with    *)
(* the window and depth of w) and the returned score afterwards.  again    *)
(* says that a search has failed, extreme that a score was +-INFINITY.     *)
(***************************************************************************)
AspPrev == {0 - MATE, 0, MATE_IN}
AspDepths == {1, 5}

\* how far a failing score lies outside the window
Jump == 8000

\* what the root search may return against the window w: a score inside, a
\* score Jump below alpha or above beta, -INFINITY, INFINITY, and against
\* the first window the two bounds themselves
AspScores(w) ==
    {DivT(w.alpha + w.beta, 2),
     Max(1 - INFINITY, w.alpha - Jump), Min(INFINITY - 1, w.beta + Jump),
     0 - INFINITY, INFINITY}
        \cup (IF w.delta = 25 THEN {w.alpha, w.beta} ELSE {})

InitAsp ==
    /\ args \in [prev_eval : AspPrev, depth : AspDepths]
    /\ ret = [pc |-> "call", w |-> asp_start(args.prev_eval, args.depth),
              again |-> FALSE, score |-> 0, extreme |-> FALSE]
    /\ feat = <<>>
    /\ idx = <<>>
    /\ NNUEIdle
    /\ SearchIdle

\* one turn of the loop: the call of pvsearch and what follows it
RootSearched(score, stopped) ==
    /\ ret.pc = "call"
    /\ ret' = IF stopped THEN [ret EXCEPT !.pc = "ret", !.score = 0]
              ELSE IF asp_fails(ret.w, score)
              THEN [ret EXCEPT !.w = asp_retry(ret.w, score),
                               !.again = TRUE,
                               !.score = score,
                               !.extreme = ret.extreme \/ Abs(score) = INFINITY]
              ELSE [ret EXCEPT !.pc = "ret", !.score = score]
    /\ UNCHANGED <<feat, idx, args, nnueVars, searchVars>>

\* at most one score of a run is -INFINITY or INFINITY
NextAsp ==
    \E score \in AspScores(ret.w), stopped \in BOOLEAN :
        /\ Abs(score) = INFINITY => ~ret.extreme
        /\ RootSearched(score, stopped)

SpecAsp == InitAsp /\ [][NextAsp]_vars

\* every root search returns a score strictly between -INFINITY and INFINITY
InnerScores(w) == AspScores(w) \ {0 - INFINITY, INFINITY}

NextAspInner ==
    \E score \in InnerScores(ret.w), stopped \in BOOLEAN : RootSearched(score, stopped)

\* pvsearch returns, so the loop always takes its next turn
SpecAspLive == InitAsp /\ [][NextAspInner]_vars /\ WF_vars(NextAspInner)

\* mutant: an interrupted iteration counts as completed
IterationNeverBroken(s, d) == FALSE

\* info.stop && d > 1
IterationBroken(s, d) == s /\ d > 1

\* the rest of one iteration of the loop (search.rs:490-530)
IdAfter ==
    /\ crashed = "none"
    /\ id.pc = "iter_end"
    /\ \E late \in (IF id.optup THEN {TRUE} ELSE BOOLEAN) :
        LET best == pv_first(id.pv)
            info == [kind |-> "info", depth |-> id.d, seldepth |-> seldepth,
                     score |-> id.score, nodes |-> nodes, pv |-> best, leaf |-> id.leaf]
            done == \/ (id.goal # NoGoal /\ nodes >= id.goal)
                    \/ (id.opt /\ late)
        IN  IF IterationBroken(stop, id.d)
            THEN /\ id' = [id EXCEPT !.pc = "finish"]
                 /\ out' = out
            ELSE /\ id' = [id EXCEPT !.best_move = best,
                                     !.optup = id.opt /\ late,
                                     !.pc = IF done THEN "finish" ELSE "loop"]
                 /\ out' = Append(out, info)
    /\ UNCHANGED <<nnueVars, indexVars, infoVars, tt, loopVars, frames, asp,
                   timeup, crashed, searches>>

\* println!("bestmove {}", best_move.unwrap()) (search.rs:533)
IdFinish ==
    /\ crashed = "none"
    /\ id.pc = "finish"
    /\ IF id.best_move = NoMove
       THEN /\ crashed' = "unwrap on None"
            /\ UNCHANGED <<id, out>>
       ELSE /\ out' = Append(out, [kind |-> "bestmove", depth |-> 0, seldepth |-> 0,
                                   score |-> 0, nodes |-> 0, pv |-> id.best_move,
                                   leaf |-> ""])
            /\ id' = [id EXCEPT !.pc = "reset"]
            /\ UNCHANGED crashed
    /\ UNCHANGED <<nnueVars, indexVars, infoVars, tt, loopVars, frames, asp,
                   timeup, searches>>

\* go_reset, called by go after the search (search.rs:607-617)
GoReset ==
    /\ crashed = "none"
    /\ id.pc = "reset"
    /\ stop' = FALSE
    /\ timer' = FALSE
    /\ nodes' = 0
    /\ seldepth' = 0
    /\ killers' = KillersNew
    /\ history' = age_table(history)
    /\ tt' = tt_age(tt)
    /\ id' = [id EXCEPT !.pc = "idle"]
    /\ timeup' = FALSE
    /\ UNCHANGED <<nnueVars, indexVars, game_history, stack, loopVars, frames,
                   asp, out, crashed, searches>>

Next ==
    \/ ~uci_set /\ Uci
    \/ Len(searches) < MaxSearches /\ nlines < SearchLines /\ \E p \in Positions : Position(p)
    \/ Len(searches) < MaxSearches /\ nlines < SearchLines /\ \E st \in SearchTypes : Go(st)
    \/ IdIterate
    \/ PvEnter
    \/ PvAfterNull
    \/ PvPick
    \/ PvAfterZw
    \/ PvAfterFull
    \/ PvAfterQ
    \/ QEnter
    \/ QPick
    \/ QAfter
    \/ AspAfter
    \/ IdAfter
    \/ IdFinish
    \/ GoReset

Spec == Init /\ [][Next]_vars

(***************************************************************************)
(* The command loop with two searches: fewer positions and limits, every   *)
(* command                                                                 *)
(***************************************************************************)
UciPositions == {p \in Positions : p.node \in {1, 4}}
UciSearchTypes == {[kind |-> "Depth", n |-> 1], [kind |-> "Depth", n |-> 5],
                   [kind |-> "Nodes", n |-> 3]}
HashValues == {0, 1, 1025, 1024001}

NextUci ==
    \/ Uci
    \/ IsReady
    \/ UciNewGame
    \/ \E n \in HashValues : SetOption(n)
    \/ \E words \in MalformedLines : Malformed(words)
    \/ \E words \in IgnoredLines : Ignored(words)
    \/ Len(searches) < MaxUciSearches /\ \E p \in UciPositions : Position(p)
    \/ Len(searches) < MaxUciSearches /\ \E st \in UciSearchTypes : Go(st)
    \/ IdIterate
    \/ PvEnter
    \/ PvAfterNull
    \/ PvPick
    \/ PvAfterZw
    \/ PvAfterFull
    \/ PvAfterQ
    \/ QEnter
    \/ QPick
    \/ QAfter
    \/ AspAfter
    \/ IdAfter
    \/ IdFinish
    \/ GoReset

SpecUci == Init /\ [][NextUci]_vars

(***************************************************************************)
(* Properties of the search.                                               *)
(***************************************************************************)
Returned == Running /\ Top.pc = "ret"
DrawLeaves == {"drawn", "repetition"}
LastOut == out[Len(out)]

\* C5: a pvsearch frame that returns on a Drawn status or on a repetition
\* returns exactly 8 - (nodes mod 8), a value in [1, 8]; a score that comes
\* from such a node stays within [-10, 10] in every frame it passes through
\* and in the info line of an iteration whose score comes from it.
C5_DrawScore ==
    /\ Returned /\ Top.why \in DrawLeaves =>
            /\ Top.fn = "pv"
            /\ Top.result = 8 - (nodes % 8)
            /\ Top.result \in 1 .. 8
            /\ 0 - Top.result \in (0 - 10) .. 10
            /\ (Top.why = "repetition" => Top.ply > 0)
    /\ Returned /\ Top.leaf \in DrawLeaves => Top.result \in (0 - 10) .. 10
    /\ \A i \in 1 .. Len(out) :
            out[i].kind = "info" /\ out[i].leaf \in DrawLeaves
                => out[i].score \in (0 - 10) .. 10

\* an iteration of depth 3 or more has reported the score of a repetition
\* found below the root after more than eight nodes
C5_Witness ==
    /\ out # <<>>
    /\ LastOut.kind = "info"
    /\ LastOut.leaf = "repetition"
    /\ LastOut.depth >= 3
    /\ LastOut.nodes > 8

\* C6: when a pvsearch or qsearch frame returns, on whichever path,
\* current_acc is what it was at entry and the frame has popped exactly as
\* often as its makes have pushed; between two moves of a frame the same holds.
C6_AccumulatorPairing ==
    /\ Returned => /\ current_acc = Top.acc0
                   /\ Top.pushes = Top.pops
    /\ Running /\ Top.pc \in {"enter", "loop"} =>
                   /\ current_acc = Top.acc0
                   /\ Top.pushes = Top.pops
    /\ \A k \in 1 .. Len(frames) - 1 :
            frames[k].pc \in {"first_wait", "zw_wait", "re_wait", "q_child"}
                => frames[k].pushes = frames[k].pops + 1

\* a frame below the root returns on a beta cutoff after at least two makes
C6_Witness ==
    /\ Returned
    /\ Top.why = "cutoff"
    /\ Top.ply > 0
    /\ Top.pushes >= 2
    /\ current_acc = Top.ply

\* C7 as stated: every make, in pvsearch and in qsearch alike, pushes the
\* hash of the pre-move position before the recursive call.
C7_EveryMakePushes ==
    \A k \in 2 .. Len(frames) :
        frames[k].via = "make"
            => frames[k].gh0 = Append(frames[k - 1].gh0, hash(frames[k - 1].board))

\* C7 (amended): every make of pvsearch pushes exactly the hash of the
\* pre-move position before the recursive call and its unmake pops it; a
\* make of qsearch leaves game_history alone; game_history at the return of
\* any frame is game_history at its entry.
C7_HistoryPairing ==
    /\ \A k \in 2 .. Len(frames) :
          frames[k].via = "make" =>
              IF frames[k - 1].fn = "pv"
              THEN frames[k].gh0 = Append(frames[k - 1].gh0, hash(frames[k - 1].board))
              ELSE frames[k].gh0 = frames[k - 1].gh0
    /\ \A k \in 1 .. Len(frames) :
          /\ frames[k].fn = "q" => frames[k].hpushes = 0 /\ frames[k].hpops = 0
          /\ frames[k].pc \in {"first_wait", "zw_wait", "re_wait"}
                => frames[k].hpushes = frames[k].hpops + 1
    /\ Returned => /\ game_history = Top.gh0
                   /\ Top.hpushes = Top.hpops
    /\ Running /\ Top.pc \in {"enter", "loop"} => game_history = Top.gh0

\* a qsearch frame entered by a capture returns, and so does its pvsearch
\* ancestor's history: the line holds a make of each kind
C7_Witness ==
    /\ Returned
    /\ Top.fn = "q"
    /\ Top.via = "make"
    /\ \E k \in 2 .. Len(frames) - 1 : frames[k].fn = "pv" /\ frames[k].via = "make"

\* C8: a frame entered at ply > 0 while stop is set returns 0 in its first
\* step and leaves the TT, killers, history, the eval stack, the accumulator
\* stack, game_history and the node counter alone; stop falls only in
\* go_reset.
C8_Cancellation ==
    [][ /\ (Running /\ stop /\ Top.pc = "enter" /\ Top.ply > 0)
            => /\ Len(frames') = Len(frames)
               /\ frames'[Len(frames)].pc = "ret"
               /\ frames'[Len(frames)].result = 0
               /\ frames'[Len(frames)].why \in {"stop", "timer"}
               /\ stop'
               /\ UNCHANGED <<tt, killers, history, stack, accumulators, current_acc,
                              game_history, nodes, seldepth>>
        /\ (stop /\ ~stop') => (id.pc = "reset" /\ id'.pc = "idle")
      ]_vars

\* a pvsearch frame two plies down has returned 0 because of stop
C8_Witness ==
    /\ Returned
    /\ stop
    /\ Top.fn = "pv"
    /\ Top.why = "stop"
    /\ Top.ply >= 2
    /\ Top.result = 0

\* C9: the move of a bestmove line is the first PV move of the info line
\* printed just before it; when the loop ends with stop set in iteration
\* d > 1, the last info line is that of iteration d - 1.
C9_BestMoveRetained ==
    /\ \A i \in 1 .. Len(out) :
            out[i].kind = "bestmove"
                => /\ i > 1
                   /\ out[i - 1].kind = "info"
                   /\ out[i].pv = out[i - 1].pv
    /\ (id.pc \in {"finish", "reset"} /\ stop /\ id.d > 1)
            => /\ out # <<>>
               /\ \E i \in 1 .. Len(out) :
                    /\ out[i].kind = "info"
                    /\ out[i].depth = id.d - 1
                    /\ out[i].pv = id.best_move
                    /\ \A j \in i + 1 .. Len(out) : out[j].kind = "bestmove"

\* the interrupted iteration has left another root move in the PV table
C9_Witness ==
    /\ id.pc = "reset"
    /\ stop
    /\ id.d > 1
    /\ LastOut.kind = "bestmove"
    /\ pv_first(id.pv) # NoMove
    /\ pv_first(id.pv) # LastOut.pv

\* C10 as stated: best_move is Some where iterative_deepening unwraps it,
\* and the search does not panic.
C10_BestMoveIsSome ==
    /\ id.pc = "finish" => id.best_move # NoMove
    /\ crashed # "unwrap on None"

\* the flag C12 states for a pvsearch frame at its exit
StatedFlag(f) ==
    IF f.best_score >= f.beta THEN "Lower"
    ELSE IF f.best_score > f.old_alpha THEN "Exact"
    ELSE "Upper"

Exited(f) == f.pc = "ret" /\ f.why \in {"done", "cutoff", "lmp"}

\* C11: no step taken while stop is set (or that sets it) changes a slot of
\* the TT; a frame, the root included, that ends its move loop with stop set
\* returns with the table as it was.  go_reset only advances the generation.
C11_NoStoreAfterStop ==
    [][ (stop \/ stop') => tt'.entries = tt.entries ]_vars

\* the root frame has finished its move loop after stop was set
C11_Witness ==
    /\ Returned
    /\ stop
    /\ Top.ply = 0
    /\ Top.fn = "pv"
    /\ Top.why = "done"
    /\ Top.moves_played >= 2

\* C12 as stated: the flag a pvsearch frame writes at its exit is LowerBound
\* when best_score >= beta, Exact when old_alpha < best_score < beta, and
\* UpperBound otherwise, also when best_score < old_alpha.
C12_FlagAsStated ==
    [][ (tt'.entries # tt.entries /\ frames' # <<>>
            /\ frames'[Len(frames')].fn = "pv" /\ Exited(frames'[Len(frames')]))
        => LET f == frames'[Len(frames')]
           IN  tt'.entries[hash(f.board) % TTSize].flag = StatedFlag(f) ]_vars

\* a push has indexed the accumulator array at MAX_PLY (inference.rs:128)
PushOutOfBounds == crashed = "accumulators: index out of bounds"

\* C20 as stated: current_acc never exceeds the ply of the running frame,
\* pop never runs at current_acc = 0, and every push, also that of a move
\* made by a frame at ply MAX_PLY - 1, writes inside the array.
C20_AccumulatorBounds ==
    /\ Running => current_acc <= Top.ply
    /\ current_acc >= 0
    /\ ~PushOutOfBounds

UciCastles == {<<E1, G1>>, <<E1, C1>>, <<E8, G8>>, <<E8, C8>>}
EngineCastles == {<<E1, H1>>, <<E1, A1>>, <<E8, H8>>, <<E8, A8>>}
Called == ret # <<>>

\* C16: with time_left >= TIME_OVERHEAD and t = time_left - TIME_OVERHEAD,
\* time_for_move gives t / max(moves_to_go, 1) whenever moves_to_go is given,
\* t/20 + increment/2 when only an increment is given, t/20 when neither is;
\* the result never exceeds t + increment/2.
C16_TimeBudget ==
    (Called /\ "time" \in DOMAIN args /\ args.time >= TIME_OVERHEAD) =>
        LET t == args.time - TIME_OVERHEAD
            inc == IF args.increment = NoArg THEN 0 ELSE args.increment
        IN  /\ ~ret.panicked
            /\ args.moves_to_go # NoArg => ret.ms = t \div Max(args.moves_to_go, 1)
            /\ (args.moves_to_go = NoArg /\ args.increment # NoArg)
                    => ret.ms = (t \div 20) + (args.increment \div 2)
            /\ (args.moves_to_go = NoArg /\ args.increment = NoArg) => ret.ms = t \div 20
            /\ ret.ms <= t + (inc \div 2)

\* both an increment and moves_to_go were given and they disagree
C16_Witness ==
    /\ Called
    /\ "time" \in DOMAIN args
    /\ args.time = 2000
    /\ args.moves_to_go = 40
    /\ args.increment = 2000
    /\ ret = Returns(48)

\* C17: with a king on the from-square e1g1 -> e1h1, e1c1 -> e1a1,
\* e8g8 -> e8h8, e8c8 -> e8a8 and reverse_castling_move maps each back; a move
\* whose piece is not a king, or whose squares are not a castling pair of
\* the function's input form, is returned unchanged by both functions.
C17_CastlingRoundTrip ==
    (Called /\ "mv" \in DOMAIN args) =>
        LET b == args.board
            m == args.mv
            king == piece_on(b, m.from) = King
            ft == <<m.from, m.to>>
        IN  /\ (king /\ ft \in UciCastles) =>
                    /\ ret.checked.from = m.from
                    /\ ft = <<E1, G1>> => ret.checked.to = H1
                    /\ ft = <<E1, C1>> => ret.checked.to = A1
                    /\ ft = <<E8, G8>> => ret.checked.to = H8
                    /\ ft = <<E8, C8>> => ret.checked.to = A8
                    /\ ret.back = m
            /\ (~king \/ ft \notin UciCastles) => ret.checked = m
            /\ (~king \/ ft \notin EngineCastles) => ret.reversed = m

\* the black king castles long in the notation of the protocol
C17_Witness ==
    /\ Called
    /\ "mv" \in DOMAIN args
    /\ piece_on(args.board, E8) = King
    /\ args.mv = Mv(E8, C8, NoPromotion)
    /\ ret.checked = Mv(E8, A8, NoPromotion)
    /\ ret.back = args.mv

\* a line has just been read (in an action formula)
ReadLine == nlines' = nlines + 1
Idle == id.pc = "idle"
Started == Len(searches) > 0 /\ id.pc = "loop" /\ id.d = 0
Written(t) == \E i \in DOMAIN t.entries : t.entries[i] # ZeroEntry

\* C13: go_reset at the end of a go leaves every TT entry in place and
\* advances the generation by one; no other line than ucinewgame and
\* setoption changes the TT between two go commands, so the second search
\* starts from the entries of the first; ucinewgame gives an empty TT and a
\* fresh search info (killers, history, game_history, counters).
C13_TTLifecycle ==
    [][ /\ (id.pc = "reset" /\ id'.pc = "idle")
            => tt'.entries = tt.entries /\ tt'.age = (tt.age + 1) % 64
        /\ (Idle /\ ReadLine /\ line'[1] \notin {"ucinewgame", "setoption"})
            => tt' = tt
        /\ (ReadLine /\ line' = <<"ucinewgame">>)
            => /\ tt' = TTNew
               /\ killers' = KillersNew
               /\ history' = HistoryNew
               /\ game_history' = <<>>
               /\ nodes' = 0
               /\ seldepth' = 0
               /\ ~stop' ]_vars

\* a second go starts on the entries the first go wrote, one generation on
C13_Witness ==
    /\ Started
    /\ Len(searches) = 2
    /\ Written(tt)
    /\ tt.age = 1
    /\ \A i \in DOMAIN tt.entries : tt.entries[i].age = 0

\* a setoption line whose value is outside 1..=1024
HashOutOfRange(words) ==
    /\ Len(words) = 5
    /\ words[1] = "setoption"
    /\ \E n \in HashValues :
        words[5] = ToString(n) /\ (n < HASH_MIN \/ n > HASH_DOC_MAX)

\* C14 as stated: a line that is not a well-formed command prints nothing,
\* leaves the board, the TT and the search state as they were and does not
\* end the loop.
C14_MalformedIgnored ==
    [][ (ReadLine /\ line' \in MalformedLines)
            => /\ out' = out
               /\ crashed' = "none"
               /\ UNCHANGED <<uci_board, board_set, tt, tt_size, infoVars,
                              accumulators, current_acc>> ]_vars

\* C15 as stated: setoption name Hash value N with N = 0 or N > 1024 is
\* refused: tt_size, the TT and the search state stay as they were and
\* nothing is printed.
C15_HashRange ==
    [][ (ReadLine /\ HashOutOfRange(line'))
            => /\ out' = out
               /\ UNCHANGED <<tt_size, tt, infoVars, accumulators, current_acc>> ]_vars

\* C18 as stated: when go starts a search, game_history is not empty, ends
\* with the hash of the root board and is the history of the position set
\* last.
C18_HistoryHoldsRoot ==
    Started =>
        /\ game_history # <<>>
        /\ game_history[Len(game_history)] = hash(uci_board)
        /\ \E p \in Positions \cup {StartPos} :
                p.node = uci_board.node /\ game_history = p.hist

\* the info and bestmove lines of the k-th go
Finished(k) == k < Len(searches) \/ id.pc \in {"reset", "idle"}
RunLines(k) ==
    LET to == IF k < Len(searches) THEN searches[k + 1].from ELSE Len(out)
        printed == SubSeq(out, searches[k].from + 1, to)
        OfSearch(l) == l.kind \in {"info", "bestmove"}
    IN  SelectSeq(printed, OfSearch)
SameStart(j, k) ==
    [searches[j] EXCEPT !.from = 0] = [searches[k] EXCEPT !.from = 0]

InLoop(f) == f.fn = "pv" /\ f.pc \in {"loop", "first_wait", "zw_wait", "re_wait"}

\* C21 as stated: a non-root node that returns on mate-distance pruning
\* returns max(alpha, ply - MATE), and a non-root node that goes on works
\* with alpha' = max(alpha, ply - MATE) and beta' = min(beta, MATE - ply - 1)
\* in place of the window it was entered with.
C21_WindowTightened ==
    /\ (Returned /\ Top.why = "mdp") =>
            /\ Top.ply > 0
            /\ Top.result = Max(Top.alpha, Top.ply - MATE)
            /\ Top.result >= Min(Top.beta, MATE - Top.ply - 1)
    /\ \A k \in DOMAIN frames :
            (InLoop(frames[k]) /\ frames[k].ply > 0) =>
                /\ frames[k].old_alpha >= frames[k].ply - MATE
                /\ frames[k].beta <= MATE - frames[k].ply - 1

\* the frame that called frames[k]
Caller(k) == frames[k - 1]
Entered(k) == frames[k].pc = "enter"

\* every frame called by a re-search, and its caller, is a PV frame
ResearchIsPV ==
    \A k \in DOMAIN frames :
        (k > 1 /\ Caller(k).pc = "re_wait") => (frames[k].PV /\ Caller(k).PV)

\* C22: when the zero-window search of a later move returns a score
\* strictly between alpha and beta, the next step searches the same move
\* again with the window [-beta, -alpha] at depth - 1 as a PV node; every
\* frame called by a re-search is a PV frame.
C22_Research ==
    [][ /\ ResearchIsPV'
        /\ (/\ Running
            /\ Len(frames) >= 2
            /\ Top.pc = "ret"
            /\ Caller(Len(frames)).pc = "zw_wait"
            /\ Caller(Len(frames)).alpha < 0 - Top.result
            /\ 0 - Top.result < Caller(Len(frames)).beta)
           => LET f == Caller(Len(frames))
                  c == frames'[Len(frames')]
              IN  /\ Len(frames') = Len(frames)
                  /\ frames'[Len(frames') - 1].pc = "re_wait"
                  /\ c.fn = "pv"
                  /\ c.pc = "enter"
                  /\ c.PV
                  /\ c.board = f.new_b
                  /\ c.alpha = 0 - f.beta
                  /\ c.beta = 0 - f.alpha
                  /\ c.depth = f.depth - 1
                  /\ c.ply = f.ply + 1 ]_vars

\* a move reduced by late move reduction is searched again at full depth
C22_Witness ==
    /\ Running
    /\ Len(frames) >= 2
    /\ Entered(Len(frames))
    /\ Caller(Len(frames)).pc = "re_wait"
    /\ Top.PV
    /\ Top.depth = Caller(Len(frames)).depth - 1
    /\ Caller(Len(frames)).moves_played >= 2

\* C23: every pvsearch and qsearch frame with PV = false is entered with
\* beta = alpha + 1, whether it is called by the zero-window search, the
\* null-move search or the first move of a non-PV frame; the root is a PV
\* frame and so is every frame below it that is reached through first-move
\* and re-search calls only.
C23_ZeroWindow ==
    /\ \A k \in DOMAIN frames :
            (Entered(k) /\ ~frames[k].PV) => frames[k].beta = frames[k].alpha + 1
    /\ \A k \in DOMAIN frames :
            (\A j \in 1 .. k - 1 : frames[j].pc \in {"first_wait", "re_wait"})
                => frames[k].PV

\* the first move of a frame that was itself called with a zero window
C23_Witness ==
    /\ Running
    /\ Len(frames) >= 3
    /\ Entered(Len(frames))
    /\ ~Top.PV
    /\ Caller(Len(frames)).pc = "first_wait"
    /\ ~Caller(Len(frames)).PV
    /\ Top.beta = Top.alpha + 1

\* a frame that returned the stored score of the transposition table
CutByTT(f) == f.pc = "ret" /\ f.why = "tt"

\* C24: a PV node never returns on the probe of the transposition table; a
\* node that returns the stored score is a non-PV node whose slot holds the
\* low 16 bits of its hash, at a stored depth no lower than the remaining
\* depth (pvsearch), with a bound that permits it: Exact always, LowerBound
\* with score >= beta, UpperBound with score <= alpha, never None.
C24_TTCutoff ==
    \A k \in DOMAIN frames :
        LET f == frames[k]
            e == probe(tt, hash(f.board))
            tt_score == score_from_tt(e.score, f.ply)
        IN  CutByTT(f) =>
                /\ ~f.PV
                /\ e.key = Key16(hash(f.board))
                /\ f.fn = "pv" => e.depth >= f.depth
                /\ f.result = tt_score
                /\ e.flag \in {"Exact", "Lower", "Upper"}
                /\ e.flag = "Lower" => tt_score >= f.beta
                /\ e.flag = "Upper" => tt_score <= f.alpha

\* a non-PV pvsearch node that returned the score of a deep enough entry
C24_Witness ==
    /\ Running
    /\ CutByTT(Top)
    /\ Top.fn = "pv"
    /\ ~Top.PV
    /\ Top.result = score_from_tt(probe(tt, hash(Top.board)).score, Top.ply)

\* the top frame is a non-PV pvsearch node about to probe the table, and the
\* slot's key matches at a stored depth no lower than the node's depth
DeepHit(f) ==
    LET e == probe(tt, hash(f.board))
    IN  /\ f.fn = "pv" /\ f.pc = "enter"
        /\ ~f.PV
        /\ PvOutcome(f, stop) \in {"tt", "nmp", "moves"}
        /\ e.key = Key16(hash(f.board))
        /\ e.depth >= Max(f.depth, 0)

\* C25: whenever a non-PV pvsearch node finds a slot whose key matches and
\* whose stored depth is >= the node's depth, the slot was written by an
\* earlier store: its age_flag is not 0 and its decoded score is not NONE.
C25_HitWasStored ==
    (Running /\ DeepHit(Top)) =>
        LET e == probe(tt, hash(Top.board))
        IN  /\ AgeFlagSet(e)
            /\ score_from_tt(e.score, Top.ply) # NONE

\* the reduction of a move after the first, with the bonus for a move that
\* gives check taken from the position after the move
StatedReduction(f) ==
    IF f.depth >= 3 /\ f.moves_played > (IF f.PV THEN 5 ELSE 3)
    THEN Clamp(lmr_reduction(f.depth, f.moves_played)
                   + (IF f.PV THEN 0 ELSE 1)
                   - (IF is_capture(f.mv) THEN 1 ELSE 0)
                   - (IF in_check(f.new_b) THEN 1 ELSE 0),
               1, f.depth - 1)
    ELSE 1

\* C26: for a move after the first, the reduction taken from the LMR table
\* is lowered by one exactly when the position after the move has the side
\* to move in check, whether or not the mover was in check before it.
C26_CheckBonus ==
    \A k \in DOMAIN frames :
        (k > 1 /\ Entered(k) /\ Caller(k).fn = "pv" /\ Caller(k).pc = "zw_wait")
            => frames[k].depth = Caller(k).depth - StatedReduction(Caller(k))

\* a frame whose move loop was left by late move pruning
Pruned(f) == f.fn = "pv" /\ f.pc = "ret" /\ f.why = "lmp"

\* C27: the move loop is left by late move pruning only in a non-PV node
\* that is not in check at depth d in {1, 2, 3}, and only once LMP_TABLE[d]
\* quiet moves (5, 8, 18) have been searched; at least one move was searched.
C27_LMPCount ==
    \A k \in DOMAIN frames :
        LET f == frames[k]
        IN  Pruned(f) =>
                /\ ~f.PV
                /\ ~f.in_check
                /\ f.depth \in 1 .. 3
                /\ f.moves_played >= 1
                /\ Len(f.quiet_moves) >= LMP_TABLE[f.depth + 1]

\* aspiration_window is about to call pvsearch
Calling == ret.pc = "call"

\* C28: in every call of pvsearch made by aspiration_window the depth
\* argument is >= 1, for any sequence of fail-low and fail-high results.
C28_RetryDepth == Calling => ret.w.depth >= 1

\* -INFINITY <= alpha < beta <= INFINITY at a call of the root search
WindowInBounds ==
    Calling => /\ 0 - INFINITY <= ret.w.alpha
               /\ ret.w.alpha < ret.w.beta
               /\ ret.w.beta <= INFINITY

\* the window is [-INFINITY, INFINITY] and no search has failed
FullAndOnce ==
    /\ ret.w.alpha = 0 - INFINITY
    /\ ret.w.beta = INFINITY
    /\ ~ret.again

C30_Terminates == <>(ret.pc = "ret")

\* the loop returned a score after at least one failed search
C30_Witness ==
    /\ ret.pc = "ret"
    /\ ret.again
    /\ ret.w.alpha < ret.score
    /\ ret.score < ret.w.beta

\* a frame at the limit of the recursion
AtLimit(f) == f.ply >= MAX_PLY

\* C31: no pvsearch or qsearch frame is entered with ply > MAX_PLY; a frame
\* entered at ply >= MAX_PLY returns the static evaluation without making a
\* move; and the descent to that limit ends in a return of every frame, never
\* in a panic of the search thread.
C31_BoundedRecursion ==
    /\ \A k \in DOMAIN frames :
            /\ frames[k].ply <= MAX_PLY
            /\ AtLimit(frames[k]) => frames[k].pc \in {"enter", "ret"}
            /\ (AtLimit(frames[k]) /\ frames[k].pc = "ret") => frames[k].why = "maxply"
    /\ crashed # "accumulators: index out of bounds"

\* a frame that returned the stop value 0
StoppedFrame(f) == f.pc = "ret" /\ f.why \in {"stop", "timer"}

\* C32: stop changes from false to true only at the entry of a pvsearch or
\* qsearch frame of a search with a timer, when the check of the clock is due
\* and the time is up; in a search without a timer stop stays false, no frame
\* returns the stop value and no iteration is broken off.
C32_StopOnlyByTimer ==
    [][ /\ (~stop /\ stop') =>
                /\ Running
                /\ Top.pc = "enter"
                /\ timer
                /\ nodes % CheckInterval = 0
                /\ timeup'
        /\ ~timer' =>
                /\ ~stop'
                /\ \A k \in DOMAIN frames' : ~StoppedFrame(frames'[k])
                /\ id'.pc # "idle" => id'.leaf # "stop" ]_vars

\* the check of the clock has set stop and the running frame returned 0
C32_Witness ==
    /\ Running
    /\ timer
    /\ stop
    /\ timeup
    /\ StoppedFrame(Top)

\* the hashes of the positions before frame f on the line of the game and
\* of the search, oldest first: those of the position command, which end
\* with the root, and the positions between the root and f
LineBefore(f) ==
    LET base == searches[Len(searches)].game_history
    IN  base \o SubSeq(f.gh0, Len(base) + 2, Len(f.gh0))

\* the position of f occurred among the last halfmove_clock positions
OccurredBefore(f) ==
    LET l == LineBefore(f)
        taken == Min(halfmove_clock(f.board), Len(l))
    IN  \E i \in 1 .. Len(l) : i > Len(l) - taken /\ l[i] = hash(f.board)

\* no ancestor of the running frame made a null move
NoNullMove == \A k \in DOMAIN frames : frames[k].pc # "null_wait"

\* C33: at a node below the root, repetition(board, hash) is true exactly
\* when the position occurred among the positions of the last halfmove_clock
\* halfmoves: the entry skipped is the current position's own, and no earlier
\* occurrence within the window is missed.
C33_Repetition ==
    (Running /\ Top.fn = "pv" /\ Top.pc = "enter" /\ Top.ply > 0 /\ NoNullMove
        /\ searches[Len(searches)].game_history # <<>>)
        => (repetition(Top.board, hash(Top.board)) <=> OccurredBefore(Top))

\* a step that starts a search: the "go" branch calls iterative_deepening
SearchStarts == id.pc = "idle" /\ id'.pc # "idle"

\* C34: whenever a search is started, after any sequence of commands,
\* current_acc = 0 and accumulators[0] is the accumulator of the root board
\* passed to the search, which is the board of the command loop.
C34_NNUEInSync ==
    [][ SearchStarts =>
            /\ current_acc' = 0
            /\ accumulators'[0] = searches'[Len(searches')].root.node
            /\ searches'[Len(searches')].root = uci_board ]_vars

\* a second search is started on a board other than the start position,
\* set by a position command after the first search
C34_Witness ==
    /\ Len(searches) = 2
    /\ Running
    /\ searches[2].root.node # StartPos.node
    /\ searches[2].root # searches[1].root
    /\ current_acc = 0

\* a step in which the frame of a node returns on a beta cutoff
CutoffStep ==
    /\ Running
    /\ Len(frames) >= 2
    /\ Len(frames') = Len(frames) - 1
    /\ frames[Len(frames) - 1].fn = "pv"
    /\ frames'[Len(frames')].pc = "ret"
    /\ frames'[Len(frames')].why = "cutoff"

\* the quiet moves of the node of f searched before the move f.mv: those no
\* longer in the picker, other than f.mv
EarlierQuiets(f) ==
    LET all == legal_moves(f.board)
        left == {f.picker[i].mv.id : i \in DOMAIN f.picker}
    IN  {all[i].id : i \in {j \in DOMAIN all : is_quiet(all[j])}} \ (left \cup {f.mv.id})

\* the table after one bonus for f.mv and one malus for each earlier quiet
\* move, all with the depth of the node
StatedHistory(h, f) ==
    [k \in DOMAIN h |->
        IF k = <<side_to_move(f.board), f.mv.id>>
        THEN Clamp(h[k] + f.depth * f.depth, 0 - MAX_HIST, MAX_HIST)
        ELSE IF k[1] = side_to_move(f.board) /\ k[2] \in EarlierQuiets(f)
        THEN Clamp(h[k] - f.depth * f.depth, 0 - MAX_HIST, MAX_HIST)
        ELSE h[k]]

\* C35: when a quiet move causes score >= beta, the cutting move receives
\* the bonus once, every quiet move searched earlier in the node and no other
\* move receives the malus once with the same depth, and the cutting move
\* becomes the first killer of the ply; when the cutting move is a capture,
\* neither killers nor history change.
C35_QuietCutoff ==
    [][ CutoffStep =>
            LET f == frames'[Len(frames')]
            IN  IF is_quiet(f.mv)
                THEN /\ history' = StatedHistory(history, f)
                     /\ killers' = [killers EXCEPT ![f.ply] = <<f.mv.id, killers[f.ply][1]>>]
                ELSE /\ history' = history
                     /\ killers' = killers ]_vars

\* a node has returned on the cutoff of a quiet move that was not the first
\* quiet move searched there
C35_Witness ==
    /\ Returned
    /\ Top.fn = "pv"
    /\ Top.why = "cutoff"
    /\ is_quiet(Top.mv)
    /\ Len(Top.quiet_moves) >= 2
    /\ history[<<side_to_move(Top.board), Top.quiet_moves[1]>>] < 0

\* the frames of pvsearch at ply p that have made a recursive call
Recursed(p) ==
    {k \in DOMAIN frames :
        /\ frames[k].fn = "pv"
        /\ frames[k].ply = p
        /\ frames[k].pc \in {"null_wait", "first_wait", "zw_wait", "re_wait"}}

\* C36: whenever improving is computed at ply p >= 2, stack[p - 2] is the
\* eval stored by the one ancestor frame at ply p - 2 of the current path,
\* never the initial NONE; improving is false in check and at ply <= 1.
C36_Improving ==
    /\ (Running /\ Top.fn = "pv" /\ Top.pc = "enter" /\ Top.ply >= 2) =>
            /\ Cardinality(Recursed(Top.ply - 2)) = 1
            /\ \A k \in Recursed(Top.ply - 2) : stack[Top.ply - 2] = frames[k].eval
            /\ stack[Top.ply - 2] # NONE
    /\ \A k \in DOMAIN frames :
            (frames[k].fn = "pv" /\ frames[k].improving) =>
                /\ ~in_check(frames[k].board)
                /\ frames[k].ply > 1
                /\ \A j \in Recursed(frames[k].ply - 2) : frames[k].eval > frames[j].eval

\* a node at ply >= 2 found itself improving and went on to its moves, with
\* a parent that did not
C36_Witness ==
    /\ Running
    /\ Top.fn = "pv"
    /\ Top.ply >= 2
    /\ Top.improving
    /\ Top.pc = "loop"
    /\ \E k \in Recursed(Top.ply - 1) : ~frames[k].improving

\* C37: for every time_left, including time_left < TIME_OVERHEAD,
\* time_for_move returns, and returns a budget <= time_left + increment/2:
\* the subtraction of the overhead neither wraps nor aborts.
C37_NoWrap ==
    (Called /\ "time" \in DOMAIN args) =>
        LET inc == IF args.increment = NoArg THEN 0 ELSE args.increment
        IN  /\ ~ret.panicked
            /\ ret.ms <= args.time + (inc \div 2)

\* a step of the command loop that reads a line
LineRead == nlines' # nlines

\* C38: before the first uci line, every other line produces no output and
\* changes no state; after it, a go starts a search only if board_set, which
\* only a position command or ucinewgame sets, and is otherwise passed over
\* without output.
C38_Handshake ==
    [][ /\ (LineRead /\ ~uci_set /\ line'[1] # "uci") =>
                UNCHANGED <<nnueVars, indexVars, infoVars, tt, uci_board, board_set,
                            uci_set, tt_size, runVars>>
        /\ (~uci_set /\ uci_set') => (line'[1] = "uci" /\ out'[Len(out')].kind = "uciok")
        /\ SearchStarts => (uci_set /\ board_set /\ line'[1] = "go")
        /\ (~board_set /\ board_set') =>
                (uci_set /\ line'[1] \in {"position", "ucinewgame"})
        /\ (LineRead /\ uci_set /\ ~board_set /\ line'[1] = "go") =>
                UNCHANGED <<nnueVars, indexVars, infoVars, tt, uci_board, board_set,
                            uci_set, tt_size, runVars>> ]_vars

\* after the handshake and a line passed over before it, a go was read with
\* no position set: no search was started and nothing was printed
C38_Witness ==
    /\ uci_set
    /\ ~board_set
    /\ nlines >= 3
    /\ line = <<"go", "depth", "1">>
    /\ id.pc = "idle"
    /\ searches = <<>>
    /\ out = <<[kind |-> "uciok"]>>
    /\ crashed = "none"

====
